---------------------------- MODULE Spec2Model ----------------------------
(***************************************************************************)
(* A model of Way-CMS (src/cms/app.py): the path sandbox (safe_path), the  *)
(* file handlers that write under the project root and the backup          *)
(* directory, the preview rewriter (process_html_for_preview), the asset   *)
(* proxy (preview_assets), the magic links and the email service, the      *)
(* automatic backups with their retention, and the sessions.               *)
(*                                                                         *)
(* A Python str is modelled as a sequence of one-character strings, so     *)
(* that startswith, lstrip, replace, split and the posixpath functions are *)
(* computed character by character as the code computes them.  None is     *)
(* modelled as the empty sequence: every function that may return None     *)
(* otherwise returns a non-empty absolute path.                            *)
(***************************************************************************)
EXTENDS Integers, Sequences, FiniteSets, TLC

VARIABLES
    root,      \* get_current_base_dir(): the project root of the session
    fs,        \* the file system: absolute path of a regular file -> content
    op,        \* the operation that produced the current state
    arg,       \* the path argument of that operation
    res,       \* the path it resolved to (None when rejected)
    listing,   \* the rel paths the last list_files returned
    resp,      \* the HTTP status of the response (0: none yet)
    touched,   \* the files the operation created, overwrote, renamed or deleted
    members,   \* zip_ref.namelist() of the archive uploaded to upload_zip
    now,       \* datetime.now(), in seconds
    nreq,      \* the number of requests handled so far
    READ_ONLY_MODE,
    page,          \* the text of the project's HTML files
    sheet,         \* the text of the project's CSS files
    html_in,       \* the HTML last handed to process_html_for_preview
    sent,          \* the body of the last preview response
    inflight,      \* the preview request between its existence check and its read
    from_file,     \* the file that holds the URL handed to resolve_relative_path
    users,            \* the rows of the table users
    magic_links,      \* the rows of the table magic_links
    link_seq,         \* the last id the table magic_links gave out (AUTOINCREMENT)
    email_configured, \* EmailConfig.is_configured()
    outbox,           \* the magic-link URLs delivered by SMTP, as (to_email, token)
    verifying,        \* the /auth/verify requests: where each is and what it holds
    session,          \* the flask session of the client of each /auth/verify request
    reply,            \* the status and the JSON of the last /auth/magic-link response
    worker,           \* the worker processes: their startup thread and their scheduler thread
    flock_holder,     \* the open file that holds the flock on _backup_lock_file (None: none)
    backup_dir_ready, \* BACKUP_DIR exists
    day,              \* the number of 02:00s that have passed
    created,          \* the automatic backups created, as (worker, run)
    auto_dir,         \* os.listdir(AUTO_BACKUP_DIR), in the order of the directory
    today,            \* the day of datetime.now(), as a place in the calendar
    swept,            \* the listing the last manage_backup_retention started from
    smtp_env,         \* the SMTP settings of os.environ
    smtp_sessions,    \* the number of SMTP sessions opened
    MULTI_TENANT,
    CMS_PASSWORD,
    cookie,           \* the Flask session of the client's browser
    projects,         \* the rows of the table projects
    user_projects,    \* the rows of the table user_projects
    served            \* the file whose content the last response carries (None: none)

\* the variables of the preview handlers
pvars == <<page, sheet, html_in, sent, inflight>>

\* the variables of authentication
avars == <<users, magic_links, link_seq, email_configured, outbox, verifying, session, reply>>

\* the variables of the automatic backups
bvars == <<worker, flock_holder, backup_dir_ready, day, created>>

\* the variables of the backup retention
rvars == <<auto_dir, today, swept>>

\* the variables of the email service
evars == <<smtp_env, smtp_sessions>>

\* the variables of the sessions
svars == <<MULTI_TENANT, CMS_PASSWORD, cookie, projects, user_projects, served>>

\* the variables of the other specifications
ovars == <<from_file, avars, bvars, rvars, evars, svars>>

\* no user, no magic link and no authentication request
AuthIdle ==
    /\ users = {}
    /\ magic_links = {}
    /\ link_seq = 0
    /\ email_configured = FALSE
    /\ outbox = {}
    /\ verifying = <<>>
    /\ session = <<>>
    /\ reply = <<>>

\* no worker process has started
BackupIdle ==
    /\ worker = <<>>
    /\ flock_holder = <<>>
    /\ backup_dir_ready = TRUE
    /\ day = 0
    /\ created = {}

\* AUTO_BACKUP_DIR is empty
RetentionIdle ==
    /\ auto_dir = <<>>
    /\ today = 1
    /\ swept = <<>>

\* no SMTP setting is set
EmailIdle ==
    /\ smtp_env = [SMTP_HOST |-> <<>>, SMTP_USER |-> <<>>, SMTP_PASSWORD |-> <<>>, SMTP_FROM |-> <<>>]
    /\ smtp_sessions = 0

\* one site without a password, and no client
SessionIdle ==
    /\ MULTI_TENANT = FALSE
    /\ CMS_PASSWORD = <<>>
    /\ cookie = <<>>
    /\ projects = {}
    /\ user_projects = {}
    /\ served = <<>>

\* nothing but file requests is going on
OthersIdle ==
    from_file = <<>> /\ AuthIdle /\ BackupIdle /\ RetentionIdle /\ EmailIdle /\ SessionIdle

vars == <<root, fs, op, arg, res, listing, resp, touched, members, now, nreq, READ_ONLY_MODE,
          pvars, ovars>>

(***************************************************************************)
(* Python str methods.                                                     *)
(***************************************************************************)
None == <<>>

\* a document with no URL, no body, no request in flight
EmptyDoc == [refs |-> <<>>, bases |-> <<>>, head |-> FALSE, html |-> FALSE]
NoBody == [kind |-> "none", doc |-> EmptyDoc, css |-> <<>>, file |-> None]
NoRequest == [handler |-> "none", arg |-> None, full_path |-> None]

\* no preview is going on
PreviewIdle ==
    /\ page = EmptyDoc
    /\ sheet = <<>>
    /\ html_in = EmptyDoc
    /\ sent = NoBody
    /\ inflight = NoRequest

SL == "/"
BS == "\\"
DOT == "."

\* s.startswith(p)
StartsWith(s, p) ==
    /\ Len(p) <= Len(s)
    /\ SubSeq(s, 1, Len(p)) = p

\* s.endswith(p)
EndsWith(s, p) ==
    /\ Len(p) <= Len(s)
    /\ SubSeq(s, Len(s) - Len(p) + 1, Len(s)) = p

\* s[n:]
Drop(s, n) == SubSeq(s, n + 1, Len(s))

\* s.lstrip(c) for a one-character c
RECURSIVE LStrip(_, _)
LStrip(s, c) ==
    IF s # <<>> /\ Head(s) = c THEN LStrip(Tail(s), c) ELSE s

\* s.rstrip(c) for a one-character c
RECURSIVE RStrip(_, _)
RStrip(s, c) ==
    IF s # <<>> /\ s[Len(s)] = c THEN RStrip(SubSeq(s, 1, Len(s) - 1), c) ELSE s

\* s.strip(c)
Strip(s, c) == RStrip(LStrip(s, c), c)

\* s.replace('\\', '/')
ReplaceBackslash(s) == [i \in 1..Len(s) |-> IF s[i] = BS THEN SL ELSE s[i]]

\* the least element of a set of indices, 0 for the empty set
First(hits) == IF hits = {} THEN 0 ELSE CHOOSE i \in hits : \A j \in hits : i <= j

\* s.find(sub) + 1: the first index of s where sub starts, 0 if there is none
Find(s, sub) == First({i \in 1..(Len(s) - Len(sub) + 1) : SubSeq(s, i, i + Len(sub) - 1) = sub})

\* s.replace(old, new): non-overlapping occurrences, left to right; i is the
\* place of the first one
RECURSIVE Replace(_, _, _)
ReplaceFrom(s, old, new, i) ==
    IF i = 0 THEN s
    ELSE SubSeq(s, 1, i - 1) \o new \o Replace(Drop(s, i + Len(old) - 1), old, new)

Replace(s, old, new) == ReplaceFrom(s, old, new, Find(s, old))

\* s.replace('//', '/')
ReplaceDoubleSlash(s) == Replace(s, <<SL, SL>>, <<SL>>)

\* s.split('/'): the list of the segments between slashes (never empty); i is
\* the place of the first slash
RECURSIVE Split(_)
SplitAt(s, i) ==
    IF i = 0 THEN <<s>>
    ELSE <<SubSeq(s, 1, i - 1)>> \o Split(Drop(s, i))

Split(s) == SplitAt(s, Find(s, <<SL>>))

\* '/'.join(parts)
RECURSIVE Join(_)
Join(parts) ==
    IF parts = <<>> THEN <<>>
    ELSE IF Len(parts) = 1 THEN parts[1]
         ELSE parts[1] \o <<SL>> \o Join(Tail(parts))

\* sub in s
Contains(s, sub) ==
    \E i \in 1..(Len(s) - Len(sub) + 1) : SubSeq(s, i, i + Len(sub) - 1) = sub

(***************************************************************************)
(* posixpath.                                                              *)
(***************************************************************************)
DotDot == <<DOT, DOT>>

\* the loop of posixpath.normpath over the components
RECURSIVE NormComps(_, _, _)
NormComps(comps, new, initial) ==
    IF comps = <<>> THEN new
    ELSE LET comp == Head(comps) IN
         IF comp = <<>> \/ comp = <<DOT>> THEN NormComps(Tail(comps), new, initial)
         ELSE IF \/ comp # DotDot
                 \/ (initial = 0 /\ new = <<>>)
                 \/ (new # <<>> /\ new[Len(new)] = DotDot)
              THEN NormComps(Tail(comps), Append(new, comp), initial)
              ELSE IF new # <<>>
                   THEN NormComps(Tail(comps), SubSeq(new, 1, Len(new) - 1), initial)
                   ELSE NormComps(Tail(comps), new, initial)

\* path or '.'
OrDot(path) == IF path = <<>> THEN <<DOT>> ELSE path

\* the number of leading slashes posixpath.normpath keeps
InitialSlashes(path) ==
    IF ~StartsWith(path, <<SL>>) THEN 0
    ELSE IF StartsWith(path, <<SL, SL>>) /\ ~StartsWith(path, <<SL, SL, SL>>) THEN 2 ELSE 1

\* normpath, given the number of leading slashes of path
NormFrom(path, initial) ==
    OrDot([i \in 1..initial |-> SL] \o Join(NormComps(Split(path), <<>>, initial)))

\* posixpath.normpath(path)
normpath(path) == NormFrom(path, InitialSlashes(path))

\* posixpath.join(a, b)
pathjoin(a, b) ==
    IF StartsWith(b, <<SL>>) THEN b
    ELSE IF a = <<>> \/ EndsWith(a, <<SL>>) THEN a \o b
         ELSE a \o <<SL>> \o b

\* posixpath.abspath(path) of an absolute path (every base directory is absolute)
abspath(path) == normpath(path)

\* index of the last '/' of p, 0 if none: p.rfind('/') + 1
RECURSIVE RFindSlash(_, _)
RFindSlash(p, i) ==
    IF i = 0 THEN 0 ELSE IF p[i] = SL THEN i ELSE RFindSlash(p, i - 1)

\* posixpath.dirname(p)
dirname(p) ==
    LET i == RFindSlash(p, Len(p))
        head == SubSeq(p, 1, i)
    IN IF head # <<>> /\ LStrip(head, SL) # <<>> THEN RStrip(head, SL) ELSE head

\* posixpath.basename(p)
basename(p) == Drop(p, RFindSlash(p, Len(p)))

\* the components of posixpath.relpath: [x for x in abspath(p).split('/') if x]
NonEmptyComps(p) == SelectSeq(Split(abspath(p)), LAMBDA x : x # <<>>)

\* length of the common prefix of two component lists
RECURSIVE CommonLen(_, _)
CommonLen(a, b) ==
    IF a # <<>> /\ b # <<>> /\ Head(a) = Head(b)
    THEN 1 + CommonLen(Tail(a), Tail(b)) ELSE 0

\* rel_list of posixpath.relpath, given the two component lists and the
\* length i of their common prefix
RelList(start_list, path_list, i) ==
    [k \in 1..(Len(start_list) - i) |-> DotDot] \o Drop(path_list, i)

RelFrom(start_list, path_list) ==
    OrDot(Join(RelList(start_list, path_list, CommonLen(start_list, path_list))))

\* posixpath.relpath(path, start)
relpath(path, start) == RelFrom(NonEmptyComps(start), NonEmptyComps(path))

(***************************************************************************)
(* Configuration.                                                          *)
(***************************************************************************)
\* CMS_BASE_DIR: the single-tenant project root
CMS_BASE_DIR == <<"/", "w">>

\* PROJECTS_BASE_DIR joined with the slug of the session's project
PROJECT_DIR == <<"/", "w", "/", "a">>

\* BACKUP_DIR
BACKUP_DIR == <<"/", "k">>

\* get_current_base_dir() is one of these
Roots == {CMS_BASE_DIR, PROJECT_DIR}

ALLOWED_EXTENSIONS == {
    <<"h", "t", "m", "l">>, <<"h", "t", "m">>, <<"c", "s", "s">>, <<"j", "s">>,
    <<"t", "x", "t">>, <<"x", "m", "l">>, <<"j", "s", "o", "n">>, <<"m", "d">>,
    <<"p", "n", "g">>, <<"j", "p", "g">>, <<"j", "p", "e", "g">>, <<"g", "i", "f">>,
    <<"s", "v", "g">>, <<"w", "e", "b", "p">>, <<"z", "i", "p">>, <<"i", "c", "o">>,
    <<"w", "o", "f", "f">>, <<"w", "o", "f", "f", "2">>, <<"t", "t", "f">>,
    <<"e", "o", "t">> }

\* index of the last '.' of s, 0 if none
RECURSIVE RFindDot(_, _)
RFindDot(s, i) ==
    IF i = 0 THEN 0 ELSE IF s[i] = DOT THEN i ELSE RFindDot(s, i - 1)

\* allowed_file(filename); the model's file names are lower case
allowed_file(filename) ==
    LET i == RFindDot(filename, Len(filename))
    IN i # 0 /\ Drop(filename, i) \in ALLOWED_EXTENSIONS

(***************************************************************************)
(* The path sandbox.                                                       *)
(***************************************************************************)
\* a bare prefix test, without the separator
ContainedBare(full_path, base_path) == StartsWith(full_path, base_path)

\* the containment check of safe_path
Contained(full_path, base_path) ==
    StartsWith(full_path, base_path \o <<SL>>) \/ full_path = base_path

\* safe_path(file_path), with get_current_base_dir() as base_dir
\* full_path if it is in base_path, None otherwise
IfContained(full_path, base_path) ==
    IF Contained(full_path, base_path) THEN full_path ELSE None

safe_path(base_dir, file_path) ==
    IF file_path = <<>> THEN abspath(base_dir)
    ELSE IfContained(
            abspath(pathjoin(base_dir,
                LStrip(LStrip(ReplaceBackslash(normpath(file_path)), SL), DOT))),
            abspath(base_dir))

(***************************************************************************)
(* The file system.                                                        *)
(***************************************************************************)
\* the content of a directory entry
DIR == "dir"

\* os.path.isfile(p)
isfile(f, p) == p \in DOMAIN f /\ f[p] # DIR

\* os.path.isdir(p): a directory entry, or an ancestor of an entry
isdir(f, p) ==
    \/ p \in DOMAIN f /\ f[p] = DIR
    \/ \E q \in DOMAIN f : StartsWith(q, IF p = <<SL>> THEN p ELSE p \o <<SL>>)

\* os.path.exists(p)
exists(f, p) == isfile(f, p) \/ isdir(f, p)

\* os.listdir(d): the names of the entries directly in d
listdir(f, d) ==
    { Split(Drop(q, Len(d) + 1))[1] : q \in { x \in DOMAIN f : StartsWith(x, d \o <<SL>>) } }

\* f with the entry p set to content c
Write(f, p, c) == [q \in DOMAIN f \cup {p} |-> IF q = p THEN c ELSE f[q]]

\* f without the entry p and the entries beneath it: os.remove, shutil.rmtree
RemoveTree(f, p) ==
    [q \in { x \in DOMAIN f : x # p /\ ~StartsWith(x, p \o <<SL>>) } |-> f[q]]

\* os.makedirs(name, exist_ok=True), component by component from '/':
\* ok is FALSE when a component is a regular file (the call raises)
RECURSIVE MakeDirsWalk(_, _, _)
MakeDirsWalk(f, cur, comps) ==
    IF comps = <<>> THEN [ok |-> TRUE, fs |-> f]
    ELSE LET c == Head(comps) IN
         IF c = <<>> \/ c = <<DOT>> THEN MakeDirsWalk(f, cur, Tail(comps))
         ELSE IF c = DotDot THEN MakeDirsWalk(f, dirname(cur), Tail(comps))
         ELSE LET nxt == pathjoin(cur, c) IN
              IF isfile(f, nxt) THEN [ok |-> FALSE, fs |-> f]
              ELSE MakeDirsWalk(IF isdir(f, nxt) THEN f ELSE Write(f, nxt, DIR),
                                nxt, Tail(comps))

makedirs(f, name) == MakeDirsWalk(f, <<SL>>, Split(name))

\* open(path, 'w').write(content): raises when path is a directory or its
\* directory does not exist
WriteFile(f, path, content) ==
    LET target == normpath(path)
    IN IF isdir(f, target) \/ ~isdir(f, dirname(target))
       THEN [ok |-> FALSE, fs |-> f, path |-> target]
       ELSE [ok |-> TRUE, fs |-> Write(f, target, content), path |-> target]

\* shutil.copy2(src, dst): raises when src is no regular file
copy2(f, src, dst) ==
    LET d == normpath(dst)
        target == IF isdir(f, d) THEN pathjoin(d, basename(src)) ELSE d
    IN IF ~isfile(f, src) THEN [ok |-> FALSE, fs |-> f, path |-> target]
       ELSE WriteFile(f, target, f[src])

\* datetime.now().strftime('%Y%m%d_%H%M%S'): one string per second
Digits == <<"0", "1", "2", "3", "4", "5", "6", "7", "8", "9">>
Timestamp(t) == <<Digits[t + 1]>>

\* create_backup(file_path): path is the backup written (None: none), fs the
\* file system afterwards
create_backup(base_dir, f, file_path, t) ==
    LET full_path == safe_path(base_dir, file_path)
        backup_subdir == pathjoin(BACKUP_DIR, file_path)
        backup_filename == basename(file_path) \o <<DOT>> \o Timestamp(t)
        backup_path == pathjoin(dirname(backup_subdir), backup_filename)
        md == makedirs(f, dirname(backup_subdir))
        cp == copy2(md.fs, full_path, backup_path)
    IN IF full_path = None \/ ~exists(f, full_path) THEN [path |-> None, fs |-> f]
       ELSE IF ~md.ok THEN [path |-> None, fs |-> md.fs]
       ELSE IF ~cp.ok THEN [path |-> None, fs |-> cp.fs]
       ELSE [path |-> cp.path, fs |-> cp.fs]

\* os.rename(old, new) of a file or directory: raises when new's directory
\* does not exist or new lies inside old
rename(f, old, new) ==
    IF ~isdir(f, dirname(new)) \/ StartsWith(new, old \o <<SL>>) \/ new = old
    THEN [ok |-> FALSE, fs |-> f]
    ELSE LET moved == { q \in DOMAIN f : q = old \/ StartsWith(q, old \o <<SL>>) }
             kept == DOMAIN f \ moved
             dest(q) == new \o Drop(q, Len(old))
         IN [ok |-> TRUE,
             fs |-> [x \in kept \cup { dest(q) : q \in moved } |->
                        IF \E q \in moved : dest(q) = x
                        THEN f[CHOOSE q \in moved : dest(q) = x] ELSE f[x]]]

\* the name zipfile's extraction gives a member: no leading slash, no '', '.'
\* or '..' component
ZipArcname(member) ==
    Join(SelectSeq(Split(member), LAMBDA x : x # <<>> /\ x # <<DOT>> /\ x # DotDot))

\* zip_ref.extractall(extract_to): member by member, stopping when one raises
RECURSIVE extractall(_, _, _, _)
extractall(f, extract_to, names, done) ==
    IF names = <<>> THEN [ok |-> TRUE, fs |-> f, files |-> done]
    ELSE LET target == normpath(pathjoin(extract_to, ZipArcname(Head(names))))
             md == makedirs(f, IF EndsWith(Head(names), <<SL>>) THEN target ELSE dirname(target))
             wr == WriteFile(md.fs, target, "zip")
         IN IF ~md.ok THEN [ok |-> FALSE, fs |-> md.fs, files |-> done]
            ELSE IF EndsWith(Head(names), <<SL>>)
                 THEN extractall(md.fs, extract_to, Tail(names), done)
                 ELSE IF ~wr.ok THEN [ok |-> FALSE, fs |-> wr.fs, files |-> done]
                      ELSE extractall(wr.fs, extract_to, Tail(names), done \cup {target})

\* the zip-slip check of upload_zip over namelist()
ZipMemberOk(extract_to, base_dir, member) ==
    StartsWith(abspath(pathjoin(extract_to, member)), abspath(base_dir))

\* the first lines of list_files, get_file, preview_file: 404 unless the path resolves and exists
found(f, full_path) == full_path # None /\ exists(f, full_path)

WAY_CMS == <<".", "w", "a", "y", "-", "c", "m", "s">>

\* list_files(path): the 'path' of every directory and file entry returned
list_files(base_dir, f, path) ==
    LET full_path == safe_path(base_dir, path)
    IN IF ~found(f, full_path) THEN {}
       ELSE { relpath(pathjoin(full_path, item), base_dir) :
                item \in { x \in listdir(f, full_path) :
                            /\ ~StartsWith(x, WAY_CMS)
                            /\ \/ isdir(f, pathjoin(full_path, x))
                               \/ /\ isfile(f, pathjoin(full_path, x))
                                  /\ (allowed_file(x) \/ StartsWith(x, <<DOT>>)) } }

(***************************************************************************)
(* Inputs.                                                                 *)
(***************************************************************************)
\* longest enumerated path argument
MaxLen == 5

PathAlphabet == {DOT, SL, BS, "w", "a"}

RECURSIVE StringsUpTo(_)
StringsUpTo(n) ==
    IF n = 0 THEN {<<>>}
    ELSE LET S == StringsUpTo(n - 1)
         IN S \cup { Append(s, c) : s \in S, c \in PathAlphabet }

S_etc_passwd == <<".", ".", "/", ".", ".", "/", "e", "t", "c", "/", "p", "a", "s", "s", "w", "d">>
S_htaccess == <<".", "h", "t", "a", "c", "c", "e", "s", "s">>
S_index_html == <<"i", "n", "d", "e", "x", ".", "h", "t", "m", "l">>
S_site_css == <<"c", "s", "s", "/", "s", "i", "t", "e", ".", "c", "s", "s">>
S_sibling == <<".", ".", "/", "w", "/", "a", "a", "/", "x">>

\* the path arguments a client may send
Candidates == StringsUpTo(MaxLen) \cup {S_etc_passwd, S_htaccess, S_index_html, S_site_css, S_sibling}

\* the files of the project at base_dir
ProjectFiles(base_dir) ==
    { pathjoin(base_dir, p) : p \in {S_index_html, S_htaccess, S_site_css, <<"a">>, <<"a", "a", "/", ".", "w">>} }

\* the project's files, the project root and the backup directory
ProjectTree(base_dir) ==
    [p \in ProjectFiles(base_dir) \cup {base_dir, BACKUP_DIR} |->
        IF p \in {base_dir, BACKUP_DIR} THEN DIR ELSE "c0"]

(***************************************************************************)
(* Path resolution: a client sends a path to a handler, which resolves it  *)
(* with safe_path; a client lists a directory and opens a listed path.     *)
(***************************************************************************)
InitPath ==
    /\ PreviewIdle
    /\ OthersIdle
    /\ root \in Roots
    /\ fs = ProjectTree(root)
    /\ op = "request"
    /\ arg \in Candidates
    /\ res = None
    /\ listing = {}
    /\ resp = 0
    /\ touched = {}
    /\ members = <<>>
    /\ now = 0
    /\ nreq = 0
    /\ READ_ONLY_MODE = FALSE

\* a handler's first line: full_path = safe_path(file_path)
SafePathCall ==
    /\ op = "request"
    /\ op' = "safe_path"
    /\ res' = safe_path(root, arg)
    /\ UNCHANGED <<root, fs, arg, listing, resp, touched, members, now, nreq, READ_ONLY_MODE, pvars, ovars>>

\* GET /api/files?path=arg
ListFiles ==
    /\ op = "request"
    /\ op' = "list_files"
    /\ res' = safe_path(root, arg)
    /\ listing' = list_files(root, fs, arg)
    /\ resp' = IF found(fs, safe_path(root, arg)) THEN 200 ELSE 404
    /\ UNCHANGED <<root, fs, arg, touched, members, now, nreq, READ_ONLY_MODE, pvars, ovars>>

\* GET /api/file?path=p for a path p of the listing
GetListed ==
    /\ op = "list_files"
    /\ \E p \in listing :
        /\ op' = "get_file"
        /\ arg' = p
        /\ res' = safe_path(root, p)
        /\ resp' = IF found(fs, safe_path(root, p)) /\ isfile(fs, safe_path(root, p))
                   THEN 200 ELSE 404
    /\ UNCHANGED <<root, fs, listing, touched, members, now, nreq, READ_ONLY_MODE, pvars, ovars>>

NextPath == SafePathCall \/ ListFiles \/ GetListed

SpecPath == InitPath /\ [][NextPath]_vars

(***************************************************************************)
(* Claims about path resolution (checked under SpecPath).                  *)
(***************************************************************************)
\* p is r or lies lexically beneath r + '/'
Beneath(p, r) ==
    \/ p = r
    \/ /\ Len(p) > Len(r) + 1
       /\ \A i \in 1..Len(r) : p[i] = r[i]
       /\ p[Len(r) + 1] = SL

\* p holds no '..' segment
NoDotDot(p) == \A i \in 1..Len(Split(p)) : Split(p)[i] # DotDot

\* C1: whatever string a handler passes to safe_path, the result is None or an
\* absolute normalized path that is the project root or lies beneath root + '/'.
C1_Containment ==
    op \in {"safe_path", "list_files", "get_file"} =>
        \/ res = None
        \/ /\ Head(res) = SL
           /\ NoDotDot(res)
           /\ Beneath(res, root)

\* C1's case: a candidate with a '..' in it was resolved to a path under the root
C1_Witness ==
    /\ op = "safe_path"
    /\ Contains(arg, DotDot)
    /\ res # None
    /\ res # root

\* a root-relative path in normal form: no leading slash, no '.', '..' or
\* empty segment, no backslash
NormalizedRelative(p) ==
    /\ p # <<>>
    /\ p # <<DOT>>
    /\ Head(p) # SL
    /\ normpath(p) = p
    /\ NoDotDot(p)
    /\ \A i \in 1..Len(p) : p[i] # BS

\* C9: resolving a normalized root-relative path (such as one list_files returned)
\* with safe_path and making the result relative to the root yields the path again.
C9_RoundTrip ==
    (op \in {"safe_path", "get_file"} /\ NormalizedRelative(arg)) =>
        /\ res # None
        /\ relpath(res, root) = arg

\* s.lstrip('/.'): every leading slash and dot removed
RECURSIVE LStripDotsSlashes(_)
LStripDotsSlashes(s) ==
    IF s # <<>> /\ Head(s) \in {SL, DOT} THEN LStripDotsSlashes(Tail(s)) ELSE s

\* C10: a candidate that begins with '../' is normalized, loses its leading dots
\* and slashes and resolves under the root ('../../etc/passwd' to root/etc/passwd).
C10_Defanged ==
    (op = "safe_path" /\ StartsWith(arg, <<DOT, DOT, SL>>)) =>
        res = abspath(pathjoin(root, LStripDotsSlashes(ReplaceBackslash(normpath(arg)))))

(***************************************************************************)
(* The file handlers.  Each returns the response status, the file system   *)
(* afterwards, the path it resolved and the files it wrote or removed.     *)
(***************************************************************************)
Reply(status, f, full_path, files) ==
    [resp |-> status, fs |-> f, res |-> full_path, touched |-> files]

\* read_only_check: every handler below is a POST, PUT, PATCH or DELETE route
read_only_check(ro) == ro

\* the backup create_backup wrote, as a set
BackupFiles(bk) == IF bk.path = None THEN {} ELSE {bk.path}

\* save_file: POST /api/file {path, content, backup}
SaveFileTo(base_dir, f, ro, t, file_path, content, create_backup_flag, full_path) ==
    LET bk == IF create_backup_flag /\ exists(f, full_path)
              THEN create_backup(base_dir, f, file_path, t)
              ELSE [path |-> None, fs |-> f]
        md == makedirs(bk.fs, dirname(full_path))
        wr == WriteFile(md.fs, full_path, content)
    IN IF read_only_check(ro) THEN Reply(403, f, None, {})
       ELSE IF file_path = <<>> THEN Reply(400, f, None, {})
       ELSE IF full_path = None THEN Reply(400, f, None, {})
       ELSE IF ~md.ok THEN Reply(500, md.fs, full_path, BackupFiles(bk))
       ELSE IF ~wr.ok THEN Reply(500, wr.fs, full_path, BackupFiles(bk))
       ELSE Reply(200, wr.fs, full_path, BackupFiles(bk) \cup {full_path})

save_file(base_dir, f, ro, t, file_path, content, create_backup_flag) ==
    SaveFileTo(base_dir, f, ro, t, file_path, content, create_backup_flag,
               safe_path(base_dir, file_path))

\* create_file: PUT /api/file {path, is_directory, content}
CreateFileAt(f, ro, path, is_directory, content, full_path) ==
    LET mdd == makedirs(f, full_path)
        md == makedirs(f, dirname(full_path))
        wr == WriteFile(md.fs, full_path, content)
    IN IF read_only_check(ro) THEN Reply(403, f, None, {})
       ELSE IF path = <<>> THEN Reply(400, f, None, {})
       ELSE IF full_path = None THEN Reply(400, f, None, {})
       ELSE IF exists(f, full_path) THEN Reply(400, f, full_path, {})
       ELSE IF is_directory
            THEN Reply(IF mdd.ok THEN 200 ELSE 500, mdd.fs, full_path, {})
       ELSE IF ~md.ok THEN Reply(500, md.fs, full_path, {})
       ELSE IF ~wr.ok THEN Reply(500, wr.fs, full_path, {})
       ELSE Reply(200, wr.fs, full_path, {full_path})

create_file(base_dir, f, ro, path, is_directory, content) ==
    CreateFileAt(f, ro, path, is_directory, content, safe_path(base_dir, path))

\* rename_file: PATCH /api/file {old_path, new_path}
RenameFileTo(base_dir, f, ro, t, old_path, new_path, old_full, new_full) ==
    LET bk == IF isfile(f, old_full)
              THEN create_backup(base_dir, f, old_path, t)
              ELSE [path |-> None, fs |-> f]
        rn == rename(bk.fs, old_full, new_full)
    IN IF read_only_check(ro) THEN Reply(403, f, None, {})
       ELSE IF old_path = <<>> \/ new_path = <<>> THEN Reply(400, f, None, {})
       ELSE IF old_full = None \/ new_full = None THEN Reply(400, f, None, {})
       ELSE IF ~exists(f, old_full) THEN Reply(404, f, old_full, {})
       ELSE IF exists(f, new_full) THEN Reply(400, f, old_full, {})
       ELSE IF ~rn.ok THEN Reply(500, rn.fs, old_full, BackupFiles(bk))
       ELSE Reply(200, rn.fs, old_full, BackupFiles(bk) \cup {old_full, new_full})

rename_file(base_dir, f, ro, t, old_path, new_path) ==
    RenameFileTo(base_dir, f, ro, t, old_path, new_path,
                 safe_path(base_dir, old_path), safe_path(base_dir, new_path))

\* delete_file: DELETE /api/file?path=
DeleteFileAt(f, ro, file_path, full_path) ==
    IF read_only_check(ro) THEN Reply(403, f, None, {})
    ELSE IF file_path = <<>> THEN Reply(400, f, full_path, {})
    ELSE IF ~found(f, full_path) THEN Reply(404, f, full_path, {})
    ELSE Reply(200, RemoveTree(f, full_path), full_path,
               { q \in DOMAIN f : q = full_path \/ StartsWith(q, full_path \o <<SL>>) })

delete_file(base_dir, f, ro, file_path) ==
    DeleteFileAt(f, ro, file_path, safe_path(base_dir, file_path))

\* upload_zip: POST /api/upload-zip, a well-formed archive with the members
\* names, extract_path the form's 'path'
UploadZipTo(base_dir, f, ro, names, extract_to) ==
    LET md == makedirs(f, extract_to)
        ex == extractall(md.fs, extract_to, names, {})
    IN IF read_only_check(ro) THEN Reply(403, f, None, {})
       ELSE IF extract_to = None THEN Reply(400, f, None, {})
       ELSE IF ~md.ok THEN Reply(500, md.fs, extract_to, {})
       ELSE IF \E i \in 1..Len(names) : ~ZipMemberOk(extract_to, base_dir, names[i])
            THEN Reply(400, md.fs, extract_to, {})
       ELSE Reply(IF ex.ok THEN 200 ELSE 500, ex.fs, extract_to, ex.files)

upload_zip(base_dir, f, ro, extract_path, names) ==
    UploadZipTo(base_dir, f, ro, names,
                IF extract_path # <<>> THEN safe_path(base_dir, extract_path) ELSE base_dir)

\* restore_backup: POST /api/restore-backup {file_path, backup_path}; the
\* route carries no read_only_check
RestoreBackupTo(base_dir, f, t, file_path, backup_path, full_backup_path, full_file_path) ==
    LET bk == IF exists(f, full_file_path)
              THEN create_backup(base_dir, f, file_path, t)
              ELSE [path |-> None, fs |-> f]
        cp == copy2(bk.fs, full_backup_path, full_file_path)
    IN IF file_path = <<>> \/ backup_path = <<>> THEN Reply(400, f, None, {})
       ELSE IF ~ContainedBare(abspath(full_backup_path), abspath(BACKUP_DIR))
            THEN Reply(400, f, None, {})
       ELSE IF full_file_path = None THEN Reply(400, f, None, {})
       ELSE IF ~exists(f, full_backup_path) THEN Reply(404, f, full_file_path, {})
       ELSE IF ~cp.ok THEN Reply(500, cp.fs, full_file_path, BackupFiles(bk))
       ELSE Reply(200, cp.fs, full_file_path, BackupFiles(bk) \cup {cp.path})

restore_backup(base_dir, f, t, file_path, backup_path) ==
    RestoreBackupTo(base_dir, f, t, file_path, backup_path,
                    pathjoin(BACKUP_DIR, backup_path), safe_path(base_dir, file_path))

(***************************************************************************)
(* File requests: a logged-in client sends up to MaxRequests requests to   *)
(* the file handlers while the clock runs.                                 *)
(***************************************************************************)
\* requests per behaviour
MaxRequests == 2

\* seconds the clock may advance
MaxClock == 2

S_abs_index_html == <<SL>> \o S_index_html
S_css_up_index_html == <<"c", "s", "s", "/", ".", ".", "/">> \o S_index_html
S_n_txt == <<"n", ".", "t", "x", "t">>
S_css == <<"c", "s", "s">>
S_up_x == <<".", ".", "/", "x">>

\* the 'path' arguments of the file requests
FilePaths ==
    { <<>>, <<DOT>>, S_index_html, S_abs_index_html, S_css_up_index_html, S_htaccess,
      S_n_txt, S_css, S_up_x }

\* the contents a client writes
Contents == {"c1", "c2"}

\* the member lists of the uploaded archives
Archives ==
    { <<S_n_txt>>,
      <<S_n_txt, <<".", ".", "/", "w", "w", "/", "x">> >>,
      <<<<".", ".", "/", "a", "a", "/", "x">>, S_n_txt>>,
      <<<<".", ".", "/", ".", ".", "/", "e", "/", "x">> >>,
      <<<<"d", "/">>, <<"d", "/", "y">> >> }

\* a backup of index.html that an earlier run of create_backup left
S_index_html_9 == S_index_html \o <<DOT, "9">>

\* the 'backup_path' arguments of restore_backup
BackupPaths == {<<>>, S_index_html_9, S_up_x}

\* the project's files and the backups at the start
FilesTree(base_dir) ==
    [p \in DOMAIN ProjectTree(base_dir) \cup {pathjoin(BACKUP_DIR, S_index_html_9)} |->
        IF p \in DOMAIN ProjectTree(base_dir) THEN ProjectTree(base_dir)[p] ELSE "b0"]

InitFiles ==
    /\ PreviewIdle
    /\ OthersIdle
    /\ root \in Roots
    /\ fs = FilesTree(root)
    /\ op = "start"
    /\ arg = <<>>
    /\ res = None
    /\ listing = {}
    /\ resp = 0
    /\ touched = {}
    /\ members = <<>>
    /\ now = 0
    /\ nreq = 0
    /\ READ_ONLY_MODE \in BOOLEAN

\* the handler named name answers the request with r
Handled(name, path, r) ==
    /\ op' = name
    /\ arg' = path
    /\ res' = r.res
    /\ resp' = r.resp
    /\ fs' = r.fs
    /\ touched' = r.touched
    /\ nreq' = nreq + 1
    /\ UNCHANGED <<root, listing, now, READ_ONLY_MODE, pvars, ovars>>

SaveFile ==
    /\ nreq < MaxRequests
    /\ \E file_path \in FilePaths, content \in Contents, backup \in BOOLEAN :
        \E r \in {save_file(root, fs, READ_ONLY_MODE, now, file_path, content, backup)} :
            Handled("save_file", file_path, r)
    /\ UNCHANGED members

CreateFile ==
    /\ nreq < MaxRequests
    /\ \E path \in FilePaths, is_directory \in BOOLEAN :
        \E r \in {create_file(root, fs, READ_ONLY_MODE, path, is_directory, "c1")} :
            Handled("create_file", path, r)
    /\ UNCHANGED members

RenameFile ==
    /\ nreq < MaxRequests
    /\ \E old_path \in FilePaths, new_path \in {S_n_txt, S_abs_index_html, S_up_x} :
        \E r \in {rename_file(root, fs, READ_ONLY_MODE, now, old_path, new_path)} :
            Handled("rename_file", old_path, r)
    /\ UNCHANGED members

DeleteFile ==
    /\ nreq < MaxRequests
    /\ \E file_path \in FilePaths :
        \E r \in {delete_file(root, fs, READ_ONLY_MODE, file_path)} :
            Handled("delete_file", file_path, r)
    /\ UNCHANGED members

UploadZip ==
    /\ nreq < MaxRequests
    /\ \E extract_path \in {<<>>, S_css, S_up_x}, names \in Archives :
        \E r \in {upload_zip(root, fs, READ_ONLY_MODE, extract_path, names)} :
            /\ Handled("upload_zip", extract_path, r)
            /\ members' = names

RestoreBackup ==
    /\ nreq < MaxRequests
    /\ \E file_path \in {<<>>, S_index_html, S_n_txt, S_up_x}, backup_path \in BackupPaths :
        \E r \in {restore_backup(root, fs, now, file_path, backup_path)} :
            Handled("restore_backup", file_path, r)
    /\ UNCHANGED members

\* a second passes
Tick ==
    /\ now < MaxClock
    /\ now' = now + 1
    /\ UNCHANGED <<root, fs, op, arg, res, listing, resp, touched, members, nreq, READ_ONLY_MODE, pvars, ovars>>

NextFiles ==
    SaveFile \/ CreateFile \/ RenameFile \/ DeleteFile \/ UploadZip \/ RestoreBackup \/ Tick

SpecFiles == InitFiles /\ [][NextFiles]_vars

(***************************************************************************)
(* Claims about the file handlers (checked under SpecFiles).               *)
(***************************************************************************)
\* C2: every file a handler creates, overwrites, renames or deletes lies inside
\* the project root or inside BACKUP_DIR (create_backup's copy included).
C2_WritesInsideRootOrBackupDir ==
    \A p \in touched : Beneath(p, root) \/ Beneath(p, BACKUP_DIR)

\* C3: an archive with a member that resolves outside the project root (into a
\* sibling whose name extends the root's name, for one) is refused by upload_zip
\* and nothing is extracted.
C3_ZipSiblingRefused ==
    ( /\ op = "upload_zip"
      /\ resp # 403
      /\ res # None
      /\ \E i \in 1..Len(members) : ~Beneath(abspath(pathjoin(res, members[i])), root) )
    => (resp = 400 /\ touched = {})

(***************************************************************************)
(* The preview rewriter: resolve_relative_path and the per-URL callbacks   *)
(* of process_html_for_preview and preview_assets.  Each callback takes    *)
(* the URL its pattern captured and returns the URL it writes back.        *)
(***************************************************************************)
PREVIEW_ASSETS == <<"/", "p", "r", "e", "v", "i", "e", "w", "-", "a", "s", "s", "e", "t", "s", "/">>

S_http == <<"h", "t", "t", "p", ":", "/", "/">>
S_https == <<"h", "t", "t", "p", "s", ":", "/", "/">>
S_data == <<"d", "a", "t", "a", ":">>
S_javascript == <<"j", "a", "v", "a", "s", "c", "r", "i", "p", "t", ":">>
S_mailto == <<"m", "a", "i", "l", "t", "o", ":">>
S_tel == <<"t", "e", "l", ":">>
S_blob == <<"b", "l", "o", "b", ":">>

\* the prefixes fix_url_attribute skips
SkippedInAttribute == {S_http, S_https, S_data, S_javascript, <<"#">>, S_mailto, S_tel, S_blob}

\* the prefixes the url() callbacks of process_html_for_preview skip
SkippedInCss == {S_http, S_https, S_data, S_javascript, S_blob}

\* the prefixes the url() callbacks of preview_assets skip
SkippedInCssFile == {S_http, S_https, <<SL, SL>>, S_data, S_javascript, S_blob}

external_services == {
    <<"c", "d", "n", "j", "s", ".", "c", "l", "o", "u", "d", "f", "l", "a", "r", "e", ".", "c", "o", "m">>,
    <<"c", "d", "n", ".", "j", "s", "d", "e", "l", "i", "v", "r", ".", "n", "e", "t">>,
    <<"u", "n", "p", "k", "g", ".", "c", "o", "m">>,
    <<"m", "a", "x", "c", "d", "n", ".", "b", "o", "o", "t", "s", "t", "r", "a", "p", "c", "d", "n", ".", "c", "o", "m">> }

local_domain_paths == {
    <<"f", "o", "n", "t", "s", ".", "g", "o", "o", "g", "l", "e", "a", "p", "i", "s", ".", "c", "o", "m">>,
    <<"f", "o", "n", "t", "s", ".", "g", "s", "t", "a", "t", "i", "c", ".", "c", "o", "m">> }

\* url.startswith((p1, p2, ...))
StartsWithAny(url, prefixes) == \E p \in prefixes : StartsWith(url, p)

\* '/'.join(path.split('/')[:-1]) if '/' in path else ''
FileDir(path) ==
    IF Contains(path, <<SL>>)
    THEN Join(SubSeq(Split(path), 1, Len(Split(path)) - 1))
    ELSE <<>>

\* ParentWalk without the pop
RECURSIVE ParentWalkNoPop(_, _)
ParentWalkNoPop(parts, rel_parts) ==
    IF rel_parts = <<>> THEN parts
    ELSE IF Head(rel_parts) \in {DotDot, <<>>, <<DOT>>}
         THEN ParentWalkNoPop(parts, Tail(rel_parts))
         ELSE ParentWalkNoPop(Append(parts, Head(rel_parts)), Tail(rel_parts))

\* the loop of resolve_relative_path over rel_parts
RECURSIVE ParentWalk(_, _)
ParentWalk(parts, rel_parts) ==
    IF rel_parts = <<>> THEN parts
    ELSE LET part == Head(rel_parts) IN
         IF part = DotDot
         THEN ParentWalk(IF parts # <<>> THEN SubSeq(parts, 1, Len(parts) - 1) ELSE parts,
                         Tail(rel_parts))
         ELSE IF part # <<>> /\ part # <<DOT>>
              THEN ParentWalk(Append(parts, part), Tail(rel_parts))
              ELSE ParentWalk(parts, Tail(rel_parts))

resolve_relative_path(base_path_arg, relative_url_arg) ==
    LET base_path == ReplaceBackslash(base_path_arg)
        relative_url == ReplaceBackslash(relative_url_arg)
        base_dir == FileDir(base_path)
        resolved ==
            IF StartsWith(relative_url, <<SL>>) THEN LStrip(relative_url, SL)
            ELSE IF StartsWith(relative_url, <<DOT, DOT, SL>>)
                 THEN Join(ParentWalk(IF base_dir # <<>> THEN Split(base_dir) ELSE <<>>,
                                      Split(relative_url)))
                 ELSE IF StartsWith(relative_url, <<DOT, SL>>)
                      THEN IF base_dir # <<>> THEN base_dir \o <<SL>> \o Drop(relative_url, 2)
                           ELSE Drop(relative_url, 2)
                      ELSE IF base_dir # <<>> THEN base_dir \o <<SL>> \o relative_url
                           ELSE relative_url
    IN ReplaceBackslash(normpath(resolved))

\* test_full_path = safe_path(url.lstrip('/')); test_full_path and os.path.exists(test_full_path)
IsLocal(base_dir, f, url) == found(f, safe_path(base_dir, LStrip(url, SL)))

\* f'/preview-assets/{path}'.replace('//', '/')
Proxied(path) == ReplaceDoubleSlash(PREVIEW_ASSETS \o path)

\* any(service in url for service in external_services)
IsExternalService(url) == \E service \in external_services : Contains(url, service)

\* The branches of each callback, given what its calls return: local is the
\* outcome of the local-file test on url.lstrip('/'), resolved is
\* resolve_relative_path(file_path, url).
UrlAttributeBranches(url, local, resolved) ==
    IF StartsWithAny(url, SkippedInAttribute) THEN url
    ELSE IF url = <<>> THEN url
    ELSE IF StartsWith(url, <<SL, SL>>)
         THEN IF local THEN Proxied(LStrip(url, SL)) ELSE url
    ELSE IF StartsWith(url, <<SL>>) /\ local THEN Proxied(LStrip(url, SL))
    ELSE IF IsExternalService(url) /\ ~local THEN url
    ELSE Proxied(resolved)

fix_url_attribute(base_dir, f, file_path, url) ==
    UrlAttributeBranches(url, IsLocal(base_dir, f, url), resolve_relative_path(file_path, url))

CssUrlBranches(url, local, resolved) ==
    IF StartsWithAny(url, SkippedInCss) THEN url
    ELSE IF url = <<>> THEN url
    ELSE IF StartsWith(url, <<SL, SL>>)
         THEN IF local THEN Proxied(LStrip(url, SL)) ELSE url
    ELSE IF /\ \E domain_path \in local_domain_paths :
                  \/ StartsWith(url, <<SL>> \o domain_path \o <<SL>>)
                  \/ StartsWith(url, domain_path \o <<SL>>)
            /\ local
         THEN Proxied(resolved)
    ELSE IF StartsWith(url, <<SL>>) /\ local THEN Proxied(resolved)
    ELSE IF IsExternalService(url) /\ ~local THEN url
    ELSE Proxied(resolved)

fix_css_url(base_dir, f, file_path, url) ==
    CssUrlBranches(url, IsLocal(base_dir, f, url), resolve_relative_path(file_path, url))

UrlInCssBranches(url, local, resolved) ==
    IF StartsWithAny(url, SkippedInCss) THEN url
    ELSE IF url = <<>> THEN url
    ELSE IF StartsWith(url, <<SL, SL>>)
         THEN IF local THEN Proxied(LStrip(url, SL)) ELSE url
    ELSE IF StartsWith(url, <<SL>>) /\ local THEN Proxied(LStrip(url, SL))
    ELSE IF IsExternalService(url) /\ ~local THEN url
    ELSE Proxied(resolved)

fix_url_in_css(base_dir, f, file_path, url) ==
    UrlInCssBranches(url, IsLocal(base_dir, f, url), resolve_relative_path(file_path, url))

SrcUrlBranches(url, local, resolved) ==
    IF StartsWithAny(url, SkippedInCss) THEN url
    ELSE IF url = <<>> THEN url
    ELSE IF StartsWith(url, <<SL, SL>>)
         THEN IF local THEN Proxied(LStrip(url, SL)) ELSE url
    ELSE IF StartsWith(url, <<SL>>) /\ local THEN Proxied(LStrip(url, SL))
    ELSE Proxied(resolved)

fix_src_url(base_dir, f, file_path, url) ==
    SrcUrlBranches(url, IsLocal(base_dir, f, url), resolve_relative_path(file_path, url))

\* the pattern of the catch-all pass only captures URLs that start with //
fix_remaining_url(base_dir, f, url) ==
    IF StartsWith(url, <<SL, SL>>) /\ IsLocal(base_dir, f, url)
    THEN Proxied(LStrip(url, SL))
    ELSE url

CssUrlInFileBranches(url, local, resolved) ==
    IF StartsWithAny(url, SkippedInCssFile) THEN url
    ELSE IF url = <<>> THEN url
    ELSE IF StartsWith(url, <<SL>>)
         THEN IF local THEN Proxied(LStrip(url, SL)) ELSE url
    ELSE Proxied(resolved)

\* fix_css_url_in_file and fix_src_url_in_css of preview_assets have the same body
fix_css_url_in_file(base_dir, f, asset_path, url) ==
    CssUrlInFileBranches(url, IsLocal(base_dir, f, url), resolve_relative_path(asset_path, url))

fix_src_url_in_css(base_dir, f, asset_path, url) ==
    CssUrlInFileBranches(url, IsLocal(base_dir, f, url), resolve_relative_path(asset_path, url))

(***************************************************************************)
(* An HTML document is modelled by the URLs the patterns of                *)
(* process_html_for_preview capture, each with the place it stands in:     *)
(*   "attr"          href=, src=, action=, ... of a tag                    *)
(*   "style_attr"    url(...) inside a style="..." attribute               *)
(*   "css"           url(...) inside a <style> block, outside @font-face   *)
(*   "fontface_url"  url(...) inside @font-face{...}, not after src:       *)
(*   "fontface_src"  src:url(...) inside @font-face{...}                   *)
(* by the href of each of its <base> tags, and by whether it has a <head>  *)
(* and an <html> tag.  A style sheet is the sequence of its url(...)'s.    *)
(***************************************************************************)
Places == {"attr", "style_attr", "css", "fontface_url", "fontface_src"}

\* request.host_url
HOST_URL == <<"h", "t", "t", "p", ":", "/", "/", "h", "/">>

\* s.replace(':/', '://')
ReplaceColonSlash(s) == Replace(s, <<":", SL>>, <<":", SL, SL>>)

fix_style_attribute(base_dir, f, file_path, url) == fix_css_url(base_dir, f, file_path, url)

\* the two substitutions over the content of one @font-face rule: fix_src_url
\* where the url(...) follows src:, then fix_url_in_css
fix_font_face(base_dir, f, file_path, ref) ==
    fix_url_in_css(base_dir, f, file_path,
        IF ref.place = "fontface_src" THEN fix_src_url(base_dir, f, file_path, ref.url)
        ELSE ref.url)

\* the @font-face substitution, then css_url_pattern over the whole block
fix_style_tag(base_dir, f, file_path, ref) ==
    fix_url_in_css(base_dir, f, file_path,
        IF ref.place \in {"fontface_src", "fontface_url"}
        THEN fix_font_face(base_dir, f, file_path, ref)
        ELSE ref.url)

\* the URL the substitutions leave where the document had ref
RewriteRef(base_dir, f, file_path, ref) ==
    IF ref.place = "attr" THEN fix_url_attribute(base_dir, f, file_path, ref.url)
    ELSE fix_remaining_url(base_dir, f,
            IF ref.place = "style_attr"
            THEN fix_style_attribute(base_dir, f, file_path, ref.url)
            ELSE fix_style_tag(base_dir, f, file_path, ref))

\* base_url of the injected <base href="...">
BaseUrl(file_path) ==
    LET base_host == RStrip(HOST_URL, SL)
        file_dir == FileDir(file_path)
        base_url == IF file_dir # <<>> THEN base_host \o PREVIEW_ASSETS \o file_dir \o <<SL>>
                    ELSE base_host \o PREVIEW_ASSETS
    IN ReplaceColonSlash(ReplaceDoubleSlash(base_url))

\* the first <base> tag is replaced; with none, base_tag goes after <head>,
\* or in a new <head> after <html>, or in a new <html><head> around the text
SetBase(html_content, refs, bases, base_url) ==
    [refs |-> refs,
     bases |-> IF bases # <<>> THEN <<base_url>> \o Tail(bases) ELSE <<base_url>>,
     head |-> IF bases # <<>> THEN html_content.head ELSE TRUE,
     html |-> IF bases # <<>> \/ html_content.head THEN html_content.html ELSE TRUE]

process_html_for_preview(base_dir, f, html_content, file_path) ==
    SetBase(html_content,
            [i \in 1..Len(html_content.refs) |->
                [place |-> html_content.refs[i].place,
                 url |-> RewriteRef(base_dir, f, file_path, html_content.refs[i])]],
            \* the href of a <base> tag is an attribute like any other
            [i \in 1..Len(html_content.bases) |->
                fix_url_attribute(base_dir, f, file_path, html_content.bases[i])],
            BaseUrl(file_path))

\* fix_font_face_in_css over the content of one @font-face rule, where
\* fix_css_url_in_file has already left url
fix_font_face_in_css(base_dir, f, asset_path, ref) ==
    fix_css_url_in_file(base_dir, f, asset_path,
        IF ref.place = "fontface_src" THEN fix_src_url_in_css(base_dir, f, asset_path, ref.url)
        ELSE ref.url)

\* one url(...) of a .css file: fix_css_url_in_file, then the @font-face pass
FontFacePass(base_dir, f, asset_path, place, first) ==
    IF place \in {"fontface_src", "fontface_url"}
    THEN fix_font_face_in_css(base_dir, f, asset_path, [place |-> place, url |-> first])
    ELSE first

\* the rewrite preview_assets applies to the text of a .css file
RewriteCssFile(base_dir, f, asset_path, css_content) ==
    [i \in 1..Len(css_content) |->
        [place |-> css_content[i].place,
         url |-> FontFacePass(base_dir, f, asset_path, css_content[i].place,
                    fix_css_url_in_file(base_dir, f, asset_path, css_content[i].url))]]

(***************************************************************************)
(* The preview handlers.  preview_file and preview_assets first look the   *)
(* file up (safe_path, os.path.exists) and then read it (open, send_file); *)
(* each is given in these two parts, and as a whole.                       *)
(***************************************************************************)
S_html == <<".", "h", "t", "m", "l">>
S_htm == <<".", "h", "t", "m">>
S_dot_css == <<".", "c", "s", "s">>

\* the extensions preview_assets tries, in its order
CommonExtensions == <<
    <<".", "c", "s", "s">>, <<".", "j", "s">>, <<".", "p", "n", "g">>, <<".", "j", "p", "g">>,
    <<".", "j", "p", "e", "g">>, <<".", "g", "i", "f">>, <<".", "s", "v", "g">>,
    <<".", "w", "o", "f", "f">>, <<".", "w", "o", "f", "f", "2">>, <<".", "t", "t", "f">>,
    <<".", "e", "o", "t">> >>

\* the first test path whose safe_path(test_path.lstrip('/')) exists, None if none does
RECURSIVE FirstFound(_, _, _)
FirstFound(base_dir, f, test_paths) ==
    IF test_paths = <<>> THEN None
    ELSE LET test_full == safe_path(base_dir, LStrip(Head(test_paths), SL))
         IN IF found(f, test_full) THEN test_full
            ELSE FirstFound(base_dir, f, Tail(test_paths))

\* flask.send_file(full_path): the file's bytes, or the exception os.stat / open raise
send_file(f, full_path) ==
    IF isfile(f, full_path)
    THEN [resp |-> 200, sent |-> [kind |-> "file", doc |-> EmptyDoc, css |-> <<>>, file |-> full_path]]
    ELSE [resp |-> 500, sent |-> NoBody]

\* preview_file up to its abort(404): resp is 0 when the handler goes on to read
PreviewFileLookup(base_dir, f, file_path) ==
    LET full_path == safe_path(base_dir, file_path)
    IN IF ~found(f, full_path) THEN [resp |-> 404, full_path |-> full_path]
       ELSE [resp |-> 0, full_path |-> full_path]

\* preview_file from the read on; content is the text of the file
PreviewFileServe(base_dir, f, file_path, full_path, content) ==
    IF EndsWith(file_path, S_html) \/ EndsWith(file_path, S_htm)
    THEN IF isfile(f, full_path)
         THEN [resp |-> 200,
               sent |-> [kind |-> "html",
                         doc |-> process_html_for_preview(base_dir, f, content, file_path),
                         css |-> <<>>, file |-> full_path]]
         ELSE [resp |-> 500, sent |-> NoBody]
    ELSE send_file(f, full_path)

preview_file(base_dir, f, file_path, content) ==
    LET found_ == PreviewFileLookup(base_dir, f, file_path)
    IN IF found_.resp # 0 THEN [resp |-> found_.resp, sent |-> NoBody]
       ELSE PreviewFileServe(base_dir, f, file_path, found_.full_path, content)

\* preview_assets up to its abort(403): resp is 0 when the handler goes on to read
PreviewAssetsLookup(base_dir, f, asset_path_arg) ==
    LET asset_path == Strip(asset_path_arg, SL)
        direct == safe_path(base_dir, asset_path)
        variation == FirstFound(base_dir, f,
                        <<asset_path, LStrip(asset_path, SL), <<SL>> \o LStrip(asset_path, SL)>>)
        varied == IF variation # None THEN variation ELSE direct
        extended == FirstFound(base_dir, f,
                        [i \in 1..Len(CommonExtensions) |-> asset_path \o CommonExtensions[i]])
        full_path == IF found(f, direct) THEN direct
                     ELSE IF found(f, varied) THEN varied
                     ELSE IF extended # None THEN extended ELSE varied
    IN IF asset_path = <<>> THEN [resp |-> 404, full_path |-> None, asset_path |-> asset_path]
       ELSE IF ~found(f, full_path)
            THEN [resp |-> 404, full_path |-> full_path, asset_path |-> asset_path]
       ELSE IF ~ContainedBare(abspath(full_path), abspath(base_dir))
            THEN [resp |-> 403, full_path |-> full_path, asset_path |-> asset_path]
       ELSE [resp |-> 0, full_path |-> full_path, asset_path |-> asset_path]

\* preview_assets from the read on; css_content is the text of the file
PreviewAssetsServe(base_dir, f, asset_path, full_path, css_content) ==
    IF EndsWith(full_path, S_dot_css) /\ isfile(f, full_path)
    THEN [resp |-> 200,
          sent |-> [kind |-> "css", doc |-> EmptyDoc,
                    css |-> RewriteCssFile(base_dir, f, asset_path, css_content),
                    file |-> full_path]]
    ELSE send_file(f, full_path)

preview_assets(base_dir, f, asset_path_arg, css_content) ==
    LET found_ == PreviewAssetsLookup(base_dir, f, asset_path_arg)
    IN IF found_.resp # 0 THEN [resp |-> found_.resp, sent |-> NoBody]
       ELSE PreviewAssetsServe(base_dir, f, found_.asset_path, found_.full_path, css_content)

\* preview_html(): POST /api/preview-html {content, file_path}
preview_html(base_dir, f, content, file_path) ==
    [resp |-> 200,
     sent |-> [kind |-> "html", doc |-> process_html_for_preview(base_dir, f, content, file_path),
               css |-> <<>>, file |-> None]]

(***************************************************************************)
(* Previewing: a client previews a page, fetches the assets the preview    *)
(* names and posts HTML to /api/preview-html, while another client may     *)
(* delete the file a preview request has looked up and not yet read.       *)
(***************************************************************************)
S_about_index_html == <<"a", "b", "o", "u", "t", "/", "i", "n", "d", "e", "x", ".", "h", "t", "m", "l">>
S_style_css == <<"s", "t", "y", "l", "e", ".", "c", "s", "s">>
S_dot_h == <<".", "h">>
S_a_woff == <<"a", ".", "w", "o", "f", "f">>
S_unpkg_x_js == <<"u", "n", "p", "k", "g", ".", "c", "o", "m", "/", "x", ".", "j", "s">>
S_gstatic_f_woff == <<"f", "o", "n", "t", "s", ".", "g", "s", "t", "a", "t", "i", "c", ".", "c", "o", "m", "/", "f", ".", "w", "o", "f", "f">>

\* the files of the previewed project, relative to its root
PreviewFiles == {
    S_index_html, S_about_index_html, S_style_css, S_dot_h, S_a_woff, S_site_css,
    S_unpkg_x_js, S_gstatic_f_woff,
    <<"i", "m", "g", "/", "l", "o", "g", "o", ".", "p", "n", "g">>,
    <<"a", "b", "o", "u", "t", "/", "a", ".", "w", "o", "f", "f">>,
    <<"c", "s", "s", "/", "f", ".", "w", "o", "f", "f">> }

PreviewTree(base_dir) ==
    [p \in {pathjoin(base_dir, q) : q \in PreviewFiles} \cup {base_dir} |->
        IF p = base_dir THEN DIR ELSE "c0"]

S_top == <<"#", "t", "o", "p">>
S_cdn_y_js == <<"c", "d", "n", ".", "j", "s", "d", "e", "l", "i", "v", "r", ".", "n", "e", "t", "/", "y", ".", "j", "s">>
S_ss_style_css == <<"/", "/", "s", "t", "y", "l", "e", ".", "c", "s", "s">>

\* the URLs a page or a style sheet refers to
Urls == {
    S_style_css,
    <<".", ".", "/", "s", "t", "y", "l", "e", ".", "c", "s", "s">>,
    <<"/", "s", "t", "y", "l", "e", ".", "c", "s", "s">>,
    S_ss_style_css,
    <<"/", "n", "o", "p", "e", ".", "c", "s", "s">>,
    <<"h", "t", "t", "p", ":", "/", "/", "x", "/", "y", ".", "p", "n", "g">>,
    S_cdn_y_js,
    S_unpkg_x_js,
    S_dot_h,
    S_top,
    S_gstatic_f_woff,
    PREVIEW_ASSETS \o S_style_css }

\* the number of URLs of a page or a style sheet
MaxRefs == 1

\* the number of <base> tags of a page
MaxBases == 2

RefSeqs(places, urls) ==
    UNION { [1..n -> [place : places, url : urls]] : n \in 0..MaxRefs }

\* pages: a full page with some URLs; a page or a fragment with no URL
Docs ==
    [refs : RefSeqs(Places, Urls), bases : {<<>>}, head : {TRUE}, html : {TRUE}]
    \cup [refs : {<<>>}, bases : UNION { [1..n -> {<<SL>>}] : n \in 0..MaxBases },
          head : BOOLEAN, html : {TRUE}]
    \cup {EmptyDoc}

\* the URLs a style sheet refers to
SheetUrls == {<<"f", ".", "w", "o", "f", "f">>, <<"/", "i", "m", "g", "/", "l", "o", "g", "o", ".", "p", "n", "g">>, <<".", ".", "/", "a", ".", "w", "o", "f", "f">>, PREVIEW_ASSETS \o S_style_css,
              S_ss_style_css, S_cdn_y_js, S_top}

Sheets == RefSeqs({"css", "fontface_url", "fontface_src"}, SheetUrls)

\* the paths a client asks /preview/ for
PreviewPaths == {S_index_html, S_about_index_html, S_style_css, <<"n", "o", "p", "e", ".", "h", "t", "m", "l">>}

\* the proxied URLs of a response body, as the asset paths a browser asks for
ProxiedPaths(b) ==
    { Drop(u, Len(PREVIEW_ASSETS)) :
        u \in { x \in {b.doc.refs[i].url : i \in 1..Len(b.doc.refs)}
                       \cup {b.css[i].url : i \in 1..Len(b.css)} :
                StartsWith(x, PREVIEW_ASSETS) } }

\* the paths a client with no preview asks /preview-assets/ for
AssetPaths == {S_site_css, S_etc_passwd, <<"n", "o", "p", "e", ".", "p", "n", "g">>, <<"s", "t", "y", "l", "e">>}

InitPreview ==
    /\ root = CMS_BASE_DIR
    /\ fs = PreviewTree(root)
    /\ op = "start"
    /\ arg = None
    /\ res = None
    /\ listing = {}
    /\ resp = 0
    /\ touched = {}
    /\ members = <<>>
    /\ now = 0
    /\ nreq = 0
    /\ READ_ONLY_MODE = FALSE
    /\ \/ page \in Docs /\ sheet = <<>>
       \/ page = EmptyDoc /\ sheet \in Sheets
    /\ html_in = EmptyDoc
    /\ sent = NoBody
    /\ inflight = NoRequest
    /\ OthersIdle

\* a preview handler returns r
Previewed(name, path, full_path, r) ==
    /\ op' = name
    /\ arg' = path
    /\ res' = full_path
    /\ resp' = r.resp
    /\ sent' = r.sent
    /\ inflight' = NoRequest
    /\ nreq' = nreq + 1
    /\ UNCHANGED <<root, fs, listing, touched, members, now, READ_ONLY_MODE, page, sheet, ovars>>

\* the handler has looked the file up and goes on to read it
LookedUp(name, path, full_path) ==
    /\ inflight' = [handler |-> name, arg |-> path, full_path |-> full_path]
    /\ UNCHANGED <<root, fs, op, arg, res, listing, resp, touched, members, now, nreq,
                   READ_ONLY_MODE, page, sheet, html_in, sent, ovars>>

\* GET /preview/<file_path>, up to the existence check
PreviewFileCheck ==
    /\ inflight = NoRequest
    /\ sent = NoBody
    /\ nreq < MaxRequests
    /\ \E file_path \in PreviewPaths :
        \E r \in {PreviewFileLookup(root, fs, file_path)} :
            IF r.resp # 0
            THEN Previewed("preview_file", file_path, None, [resp |-> r.resp, sent |-> NoBody])
                 /\ UNCHANGED html_in
            ELSE LookedUp("preview_file", file_path, r.full_path)

\* GET /preview/<file_path>, the read and the response
PreviewFileRead ==
    /\ inflight.handler = "preview_file"
    /\ \E r \in {PreviewFileServe(root, fs, inflight.arg, inflight.full_path, page)} :
        /\ Previewed("preview_file", inflight.arg, inflight.full_path, r)
        /\ html_in' = IF r.sent.kind = "html" THEN page ELSE html_in

\* GET /preview-assets/<asset_path>, up to the existence check
PreviewAssetsCheck ==
    /\ inflight = NoRequest
    /\ nreq < MaxRequests
    /\ \E asset_path \in (IF sent = NoBody THEN AssetPaths ELSE {}) \cup ProxiedPaths(sent) :
        \E r \in {PreviewAssetsLookup(root, fs, asset_path)} :
            IF r.resp # 0
            THEN Previewed("preview_assets", asset_path, None, [resp |-> r.resp, sent |-> NoBody])
                 /\ UNCHANGED html_in
            ELSE LookedUp("preview_assets", asset_path, r.full_path)

\* GET /preview-assets/<asset_path>, the read and the response
PreviewAssetsRead ==
    /\ inflight.handler = "preview_assets"
    /\ \E r \in {PreviewAssetsServe(root, fs, Strip(inflight.arg, SL), inflight.full_path, sheet)} :
        /\ Previewed("preview_assets", inflight.arg, inflight.full_path, r)
        /\ UNCHANGED html_in

\* POST /api/preview-html: the client posts the text of the page, or the
\* preview it was sent, for the file it is viewing
PreviewHtml ==
    /\ inflight = NoRequest
    /\ nreq < MaxRequests
    /\ \E file_path \in {S_index_html, S_about_index_html},
          content \in {page} \cup (IF sent.kind = "html" THEN {sent.doc} ELSE {}) :
        /\ op = "preview_file" => file_path = arg
        /\ \E r \in {preview_html(root, fs, content, file_path)} :
            /\ Previewed("preview_html", file_path, None, r)
            /\ html_in' = content

\* another client's DELETE /api/file removes the file a preview has looked up
DeleteLookedUp ==
    /\ inflight # NoRequest
    /\ isfile(fs, inflight.full_path)
    /\ \E r \in {delete_file(root, fs, READ_ONLY_MODE, relpath(inflight.full_path, root))} :
        /\ fs' = r.fs
        /\ touched' = r.touched
        /\ UNCHANGED <<root, op, arg, res, listing, resp, members, now, nreq, READ_ONLY_MODE, pvars, ovars>>

NextPreview ==
    \/ PreviewFileCheck \/ PreviewFileRead
    \/ PreviewAssetsCheck \/ PreviewAssetsRead
    \/ PreviewHtml
    \/ DeleteLookedUp

SpecPreview == InitPreview /\ [][NextPreview]_vars

(***************************************************************************)
(* Claims about the preview rewriter and the asset proxy (checked under    *)
(* SpecPreview).                                                           *)
(***************************************************************************)
\* C4: process_html_for_preview applied to its own output, for the same file
\* and the same project files, returns that output unchanged.
C4_Idempotent ==
    ( /\ op = "preview_html"
      /\ html_in = process_html_for_preview(root, fs, page, arg) )
    => sent.doc = html_in

\* the number of places of s where sub starts
Occurrences(s, sub) ==
    Cardinality({ i \in 1..(Len(s) - Len(sub) + 1) : SubSeq(s, i, i + Len(sub) - 1) = sub })

\* C5: one pass over a page or over a served style sheet rewrites each URL at
\* most once: the URL it emits carries /preview-assets/ at most once more
\* than the URL it read.
C5_RewrittenOnce ==
    /\ sent.kind = "html" =>
        \A i \in 1..Len(sent.doc.refs) :
            Occurrences(sent.doc.refs[i].url, PREVIEW_ASSETS)
                <= Occurrences(html_in.refs[i].url, PREVIEW_ASSETS) + 1
    /\ sent.kind = "css" =>
        \A i \in 1..Len(sent.css) :
            Occurrences(sent.css[i].url, PREVIEW_ASSETS)
                <= Occurrences(sheet[i].url, PREVIEW_ASSETS) + 1

\* the attribute URLs of the page whose file, resolved from file_path, exists
ExistingTargets(file_path) ==
    { i \in 1..Len(page.refs) :
        /\ page.refs[i].place = "attr"
        /\ isfile(fs, pathjoin(root, resolve_relative_path(file_path, page.refs[i].url))) }

\* C6: where the file at resolve_relative_path(F, U) exists, the preview of F
\* carries /preview-assets/ + resolve_relative_path(F, U) for the attribute
\* URL U, and the asset proxy answers a request for that URL with that file.
C6_PreviewThenAsset ==
    \A file_path \in {S_index_html, S_about_index_html} :
        \A i \in ExistingTargets(file_path) :
            LET P == resolve_relative_path(file_path, page.refs[i].url) IN
            /\ (op = "preview_file" /\ arg = file_path /\ resp = 200)
                => sent.doc.refs[i].url = PREVIEW_ASSETS \o P
            /\ (op = "preview_assets" /\ arg = P /\ inflight = NoRequest)
                => (resp = 200 /\ sent.file = pathjoin(root, P))

\* C7: a /preview-assets/ request whose path safe_path rejects is answered 403.
C7_RejectedIsForbidden ==
    ( /\ op = "preview_assets"
      /\ Strip(arg, SL) # <<>>
      /\ safe_path(root, Strip(arg, SL)) = None )
    => resp = 403

\* C8: when the file is deleted between the existence check and the read,
\* preview_file and preview_assets answer 404.
C8_DisappearedIsNotFound ==
    ( /\ op \in {"preview_file", "preview_assets"}
      /\ res # None
      /\ ~exists(fs, res) )
    => resp = 404

(***************************************************************************)
(* Resolving a URL: resolve_relative_path applied to a containing file and *)
(* a URL.                                                                  *)
(***************************************************************************)
\* the length of a URL
MaxUrlLen == 5

UrlAlphabet == {DOT, SL, BS, "x"}

RECURSIVE UrlsUpTo(_)
UrlsUpTo(n) ==
    IF n = 0 THEN {<<>>}
    ELSE UrlsUpTo(n - 1) \cup
         { Append(u, c) : u \in { v \in UrlsUpTo(n - 1) : Len(v) = n - 1 }, c \in UrlAlphabet }

S_abc_html == <<"a", "/", "b", "/", "c", ".", "h", "t", "m", "l">>
S_up_img == <<".", ".", "/", "i", "m", "g", ".", "p", "n", "g">>
S_dot_img == <<".", "/", "i", "m", "g", ".", "p", "n", "g">>
S_abs_img == <<"/", "i", "m", "g", ".", "p", "n", "g">>
S_up_up_x == <<".", ".", "/", ".", ".", "/", "x">>
S_dot_up_up_x == <<".", "/", ".", ".", "/", ".", ".", "/", "x">>
S_img_up_x == <<"i", "m", "g", "/", ".", ".", "/", ".", ".", "/", ".", ".", "/", "x">>

\* the files that hold a URL
ContainingFiles == {S_index_html, S_abc_html, S_about_index_html, <<"a", "\\", "c", ".", "h", "t", "m", "l">>}

UrlCandidates ==
    UrlsUpTo(MaxUrlLen) \cup {S_up_img, S_dot_img, S_abs_img, S_up_up_x, S_dot_up_up_x, S_img_up_x}

InitResolve ==
    /\ root = CMS_BASE_DIR
    /\ fs = ProjectTree(root)
    /\ op = "request"
    /\ arg \in UrlCandidates
    /\ from_file \in ContainingFiles
    /\ res = None
    /\ listing = {}
    /\ resp = 0
    /\ touched = {}
    /\ members = <<>>
    /\ now = 0
    /\ nreq = 0
    /\ READ_ONLY_MODE = FALSE
    /\ PreviewIdle
    /\ AuthIdle
    /\ BackupIdle
    /\ RetentionIdle
    /\ EmailIdle
    /\ SessionIdle

\* resolved = resolve_relative_path(file_path, url)
Resolve ==
    /\ op = "request"
    /\ op' = "resolve_relative_path"
    /\ res' = resolve_relative_path(from_file, arg)
    /\ UNCHANGED <<root, fs, arg, listing, resp, touched, members, now, nreq, READ_ONLY_MODE,
                   pvars, ovars>>

NextResolve == Resolve

SpecResolve == InitResolve /\ [][NextResolve]_vars

(***************************************************************************)
(* Claims about resolve_relative_path (checked under SpecResolve).         *)
(***************************************************************************)
\* the segments of the directory of a containing file
DirSegments(file) ==
    IF Len(Split(file)) <= 1 \/ Join(SubSeq(Split(file), 1, Len(Split(file)) - 1)) = <<>>
    THEN <<>>
    ELSE SubSeq(Split(file), 1, Len(Split(file)) - 1)

\* the segments left after the first n segments of rel have been applied to
\* dir: '..' drops the last segment if there is one, '' and '.' do nothing
RECURSIVE Applied(_, _, _)
Applied(dir, rel, n) ==
    IF n = 0 THEN dir
    ELSE LET before == Applied(dir, rel, n - 1) IN
         IF rel[n] = DotDot
         THEN (IF before = <<>> THEN <<>> ELSE SubSeq(before, 1, Len(before) - 1))
         ELSE IF rel[n] \in {<<>>, <<DOT>>} THEN before
         ELSE Append(before, rel[n])

\* x joined to the directory of the containing file
JoinedToDir(dir, x) == IF dir = <<>> THEN x ELSE Join(dir) \o <<SL>> \o x

\* the four branches, as written: no normalization, one leading slash
BranchesAsWritten(file, url) ==
    IF StartsWith(url, <<SL>>) THEN Tail(url)
    ELSE IF StartsWith(url, <<DOT, DOT, SL>>)
         THEN Join(Applied(DirSegments(file), Split(url), Len(Split(url))))
    ELSE IF StartsWith(url, <<DOT, SL>>) THEN JoinedToDir(DirSegments(file), Drop(url, 2))
    ELSE JoinedToDir(DirSegments(file), url)

\* the four branches on slash-only inputs, every leading slash removed, the
\* result normalized
BranchesNormalized(file, url) ==
    IF StartsWith(url, <<SL>>) THEN normpath(LStrip(url, SL))
    ELSE normpath(BranchesAsWritten(file, url))

\* C11 (as stated): the resolved path is what the four branches give: the URL
\* without its leading slash; one directory segment popped per '..'; './x'
\* and 'x' joined to the directory of the containing file.
C11_FourBranchesAsWritten ==
    op = "resolve_relative_path" => res = BranchesAsWritten(from_file, arg)

\* C11 (amended): with backslashes read as slashes, the resolved path is the
\* lexical normalization of what the four branches give, a URL starting with
\* '/' losing all its leading slashes; the four rows of the table hold.
C11_FourBranches ==
    op = "resolve_relative_path" =>
        /\ res = BranchesNormalized(ReplaceBackslash(from_file), ReplaceBackslash(arg))
        /\ (from_file = S_abc_html /\ arg = S_up_img) => res = <<"a", "/", "i", "m", "g", ".", "p", "n", "g">>
        /\ (from_file = S_abc_html /\ arg = S_dot_img) => res = <<"a", "/", "b", "/", "i", "m", "g", ".", "p", "n", "g">>
        /\ (from_file = S_abc_html /\ arg = S_abs_img) => res = <<"i", "m", "g", ".", "p", "n", "g">>
        /\ (from_file = S_index_html /\ arg = S_up_up_x) => res = <<"x">>

\* '..' is clamped at the root: ('index.html', '../../x') has been resolved to 'x'
C11_Witness ==
    op = "resolve_relative_path" /\ from_file = S_index_html /\ arg = S_up_up_x /\ res = <<"x">>

\* C12: the resolved path has no '..' segment.
C12_NoDotDotSegment ==
    op = "resolve_relative_path" => NoDotDot(res)

(***************************************************************************)
(* Claims about the classification of URLs (checked under SpecPreview).    *)
(* A response is compared with the text it was made from while no request  *)
(* is in flight: then fs is the tree the rewrite saw.                      *)
(***************************************************************************)
\* the response is a rewritten page / a rewritten style sheet
HtmlSent == inflight = NoRequest /\ sent.kind = "html"
CssSent == inflight = NoRequest /\ sent.kind = "css"

\* C13: a URL that starts with http://, https://, data:, javascript:, #,
\* mailto:, tel: or blob: is emitted as it was read, in every place of a page
\* and in a style sheet served by the asset proxy.
C13_ExternalPrefixUntouched ==
    /\ HtmlSent =>
        \A i \in 1..Len(html_in.refs) :
            StartsWithAny(html_in.refs[i].url, SkippedInAttribute)
                => sent.doc.refs[i].url = html_in.refs[i].url
    /\ CssSent =>
        \A i \in 1..Len(sheet) :
            StartsWithAny(sheet[i].url, SkippedInAttribute)
                => sent.css[i].url = sheet[i].url

\* the URL names an allow-listed CDN host and carries no external prefix
NamesCdnHost(url) == IsExternalService(url) /\ ~StartsWithAny(url, SkippedInAttribute)

\* C14: in every place of a page, a URL that names an allow-listed CDN host is
\* emitted as it was read when no local file exists for it, and is emitted
\* under /preview-assets/ when the local file exists.
C14_CdnHostByLocalFile ==
    HtmlSent =>
        \A i \in 1..Len(html_in.refs) :
            NamesCdnHost(html_in.refs[i].url) =>
                IF IsLocal(root, fs, html_in.refs[i].url)
                THEN StartsWith(sent.doc.refs[i].url, PREVIEW_ASSETS)
                ELSE sent.doc.refs[i].url = html_in.refs[i].url

\* the URL is one the callbacks test for a local file at its root-relative
\* path: it starts with /, or names a CDN host or a local domain path
TestedAtRoot(url) ==
    /\ ~StartsWithAny(url, SkippedInAttribute)
    /\ \/ StartsWith(url, <<SL>>)
       \/ IsExternalService(url)
       \/ \E domain \in local_domain_paths : Contains(url, domain)

\* C15: a URL found local because the file at its root-relative path P exists
\* is emitted as /preview-assets/P, whatever the directory of the page (stated
\* for attributes and inline styles, which one callback rewrites once).
C15_LocalAtRootPath ==
    HtmlSent =>
        \A i \in 1..Len(html_in.refs) :
            ( /\ html_in.refs[i].place \in {"attr", "style_attr"}
              /\ TestedAtRoot(html_in.refs[i].url)
              /\ IsLocal(root, fs, html_in.refs[i].url) )
            => sent.doc.refs[i].url = Proxied(LStrip(html_in.refs[i].url, SL))

\* C16: a url(...) of a style sheet served by the asset proxy, outside
\* @font-face, is emitted as the <style>-block rewrite emits the same url(...)
\* in a page at the path of the style sheet.
C16_ProxyCssAsStyleBlock ==
    (CssSent /\ op = "preview_assets") =>
        \A i \in 1..Len(sheet) :
            sheet[i].place = "css"
                => sent.css[i].url = RewriteRef(root, fs, Strip(arg, SL), sheet[i])

\* C17: a rewritten page has exactly one <base> tag, and its href is the
\* proxy prefix followed by the directory of the page.
C17_ExactlyOneBase ==
    (HtmlSent /\ op \in {"preview_file", "preview_html"}) =>
        sent.doc.bases = <<BaseUrl(arg)>>

(***************************************************************************)
(* Claim about the statuses of the asset proxy (checked under SpecPreview, *)
(* in the states where preview_assets has answered and no file was deleted *)
(* under it).                                                              *)
(***************************************************************************)
\* a file or a directory exists at the path q of the project, within the project
ExistsInSandbox(q) ==
    /\ Contained(normpath(pathjoin(root, q)), root)
    /\ exists(fs, normpath(pathjoin(root, q)))

\* asset_path with each of the extensions appended, in the order tried
Completions(asset_path) ==
    [i \in 1..Len(CommonExtensions) |-> asset_path \o CommonExtensions[i]]

\* the places of the completions that exist
Completed(asset_path) ==
    { i \in 1..Len(CommonExtensions) : ExistsInSandbox(Completions(asset_path)[i]) }

\* what C18 states of a request for asset_path
NotFoundExactly(asset_path) ==
    /\ resp = 404 <=>
        \/ asset_path = <<>>
        \/ ~ExistsInSandbox(asset_path) /\ Completed(asset_path) = {}
    /\ ( /\ asset_path # <<>>
         /\ ~ExistsInSandbox(asset_path)
         /\ Completed(asset_path) # {} )
       => res = pathjoin(root, Completions(asset_path)[First(Completed(asset_path))])

\* C18: preview_assets answers 404 exactly when the stripped path is empty
\* or neither the path nor the path with one of the extensions appended
\* exists in the project; with the direct path absent it serves the first
\* completion that exists, in the order of the list.
C18_NotFoundExactly ==
    (op = "preview_assets" /\ inflight = NoRequest /\ touched = {})
        => NotFoundExactly(Strip(arg, SL))

(***************************************************************************)
(* Authentication (models.py, auth.py, auth_routes.py, email_service.py).  *)
(* A row of users is [id, email, is_admin]; a row of magic_links is        *)
(* [id, token, user_id, expires_at, used].  Every `with get_db()` block is *)
(* one transaction: a handler that runs several of them takes one step for *)
(* each, and other requests may run in between.                            *)
(***************************************************************************)
\* str.lower(), for the letters the emails of the model are written with
Lower(s) ==
    [i \in 1..Len(s) |-> IF s[i] = "A" THEN "a" ELSE IF s[i] = "X" THEN "x" ELSE s[i]]

\* cls.from_row(cursor.fetchone()): a row of the result, None when there is none
from_row(rows) == IF rows = {} THEN None ELSE CHOOSE row \in rows : TRUE

\* User.get_by_email(email)
get_by_email(us, email) == from_row({u \in us : u.email = Lower(email)})

\* User.get_by_id(user_id)
get_by_id(us, user_id) == from_row({u \in us : u.id = user_id})

\* MagicLink.get_by_token(token)
get_by_token(links, token) == from_row({l \in links : l.token = token})

\* MAGIC_LINK_EXPIRY_HOURS, in ticks of the clock
MAGIC_LINK_EXPIRY_HOURS == 1

\* MagicLink.is_valid(), with datetime.now() = t
is_valid(magic_link, t) ==
    IF magic_link.used THEN FALSE
    ELSE IF t > magic_link.expires_at THEN FALSE
    ELSE TRUE

\* MagicLink.mark_used(): UPDATE magic_links SET used = TRUE WHERE id = ?
mark_used(links, id) ==
    { IF l.id = id THEN [l EXCEPT !.used = TRUE] ELSE l : l \in links }

\* MagicLink.create(user_id): secrets.token_urlsafe draws a token no row has;
\* the n-th token drawn is written n
MagicLinkCreate(seq, user_id, t) ==
    [id |-> seq + 1, token |-> seq + 1, user_id |-> user_id,
     expires_at |-> t + MAGIC_LINK_EXPIRY_HOURS, used |-> FALSE]

\* get_magic_link_url(token)
get_magic_link_url(token) == <<"/auth/verify/", token>>

\* DELETE FROM users WHERE id = ?, with magic_links.user_id ON DELETE CASCADE
DeleteUserRow(us, links, user_id) ==
    [users |-> {u \in us : u.id # user_id},
     magic_links |-> {l \in links : l.user_id # user_id}]

\* jsonify(...), status
Json(status, json) == [status |-> status, json |-> json]

\* what request_magic_link returns and leaves in the tables and with SMTP
Requested(answer, links, seq, box) ==
    [reply |-> answer, magic_links |-> links, link_seq |-> seq, outbox |-> box]

\* request_magic_link from `if not EmailConfig.is_configured()` on, for a user
RequestForUser(user, magic_link, links, seq, configured, box, delivered) ==
    IF ~configured
    THEN Requested(Json(500, [error |-> "Email service is not configured. Please contact administrator."]),
                   links, seq, box)
    ELSE IF ~delivered
    THEN Requested(Json(500, [error |-> "Failed to send email: SMTP authentication failed. Check your credentials."]),
                   links \cup {magic_link}, seq + 1, box)
    ELSE Requested(Json(200, [success |-> TRUE, message |-> "Login link sent to your email."]),
                   links \cup {magic_link}, seq + 1,
                   box \cup {[to_email |-> user.email,
                              magic_link_url |-> get_magic_link_url(magic_link.token)]})

\* request_magic_link(): POST /auth/magic-link {email}; delivered is the
\* outcome of the SMTP session, t is datetime.now()
RequestByEmail(email, user, links, seq, configured, box, delivered, t) ==
    IF email = <<>>
    THEN Requested(Json(400, [error |-> "Email is required"]), links, seq, box)
    ELSE IF user = None
    THEN Requested(Json(200, [success |-> TRUE,
                              message |-> "If your email is registered, you will receive a login link."]),
                   links, seq, box)
    ELSE RequestForUser(user, MagicLinkCreate(seq, user.id, t), links, seq, configured, box, delivered)

request_magic_link(us, links, seq, configured, box, submitted, delivered, t) ==
    RequestByEmail(Lower(Strip(submitted, " ")),
                   get_by_email(us, Lower(Strip(submitted, " "))),
                   links, seq, configured, box, delivered, t)

(***************************************************************************)
(* Logging in by magic link: clients ask for links and follow the links    *)
(* they were mailed, several requests at a time; an administrator may      *)
(* delete the user; the clock advances.                                    *)
(***************************************************************************)
S_a_at_x == <<"a", "@", "x">>
S_b_at_x == <<"b", "@", "x">>
S_admin_at_x == <<"r", "@", "x">>

\* the users at the start
InitialUsers == {
    [id |-> 1, email |-> S_a_at_x, is_admin |-> FALSE],
    [id |-> 2, email |-> S_admin_at_x, is_admin |-> TRUE] }

\* the emails clients submit
SubmittedEmails == {<<>>, S_a_at_x, <<" ", "A", "@", "x">>, S_b_at_x}

\* the number of magic links created
MaxLinks == 2

\* the number of /auth/verify requests
MaxVerifies == 2

\* an /auth/verify request that has not arrived
NotArrived == [pc |-> "idle", token |-> 0, magic_link |-> None, user |-> None,
               success |-> FALSE, error |-> ""]

InitAuth ==
    /\ root = CMS_BASE_DIR
    /\ fs = ProjectTree(root)
    /\ op = "start"
    /\ arg = None
    /\ res = None
    /\ listing = {}
    /\ resp = 0
    /\ touched = {}
    /\ members = <<>>
    /\ now = 0
    /\ nreq = 0
    /\ READ_ONLY_MODE = FALSE
    /\ PreviewIdle
    /\ from_file = <<>>
    /\ users = InitialUsers
    /\ magic_links = {}
    /\ link_seq = 0
    /\ email_configured \in BOOLEAN
    /\ outbox = {}
    /\ verifying = [r \in 1..MaxVerifies |-> NotArrived]
    /\ session = [r \in 1..MaxVerifies |-> None]
    /\ reply = <<>>
    /\ BackupIdle
    /\ RetentionIdle
    /\ EmailIdle
    /\ SessionIdle

\* the variables no authentication request changes
nonauth ==
    <<root, fs, res, listing, touched, members, now, nreq, READ_ONLY_MODE, pvars, from_file, bvars, rvars, evars, svars>>

\* POST /auth/magic-link
RequestMagicLink ==
    /\ link_seq < MaxLinks
    /\ \E submitted \in SubmittedEmails, delivered \in BOOLEAN :
        \E r \in {request_magic_link(users, magic_links, link_seq, email_configured, outbox,
                                     submitted, delivered, now)} :
            /\ op' = "request_magic_link"
            /\ arg' = submitted
            /\ resp' = r.reply.status
            /\ reply' = r.reply
            /\ magic_links' = r.magic_links
            /\ link_seq' = r.link_seq
            /\ outbox' = r.outbox
    /\ UNCHANGED <<nonauth, users, email_configured, verifying, session>>

\* the request r of /auth/verify goes on as v
VerifyStep(r, v) ==
    /\ verifying' = [verifying EXCEPT ![r] = v]
    /\ op' = "verify_token"
    /\ arg' = v.token
    /\ resp' = IF v.pc # "done" THEN 0 ELSE IF v.success THEN 302 ELSE 200

\* verify_magic_link fails with error
Failed(v, error) == [v EXCEPT !.pc = "done", !.success = FALSE, !.error = error]

\* verify_magic_link from get_by_token to is_valid, with the row it read
AfterGetByToken(v, magic_link, t) ==
    IF magic_link = None THEN Failed(v, "Invalid or expired link")
    ELSE IF ~is_valid(magic_link, t)
         THEN Failed(v, "This link has expired or already been used")
    ELSE [v EXCEPT !.pc = "get_user", !.magic_link = magic_link]

\* GET /auth/verify/<token>: magic_link = MagicLink.get_by_token(token), is_valid()
VerifyGetByToken(r) ==
    /\ verifying[r].pc = "idle"
    /\ \E token \in {0} \cup {m.magic_link_url[2] : m \in outbox} :
        VerifyStep(r, AfterGetByToken([verifying[r] EXCEPT !.token = token],
                                      get_by_token(magic_links, token), now))
    /\ UNCHANGED <<nonauth, users, magic_links, link_seq, email_configured, outbox, session, reply>>

\* verify_magic_link at get_user, with the row it read
AfterGetUser(v, user) ==
    IF user = None THEN Failed(v, "User not found")
    ELSE [v EXCEPT !.pc = "mark_used", !.user = user]

\* user = magic_link.get_user()
VerifyGetUser(r) ==
    /\ verifying[r].pc = "get_user"
    /\ VerifyStep(r, AfterGetUser(verifying[r], get_by_id(users, verifying[r].magic_link.user_id)))
    /\ UNCHANGED <<nonauth, users, magic_links, link_seq, email_configured, outbox, session, reply>>

\* magic_link.mark_used(); return True, user, ''
VerifyMarkUsed(r) ==
    /\ verifying[r].pc = "mark_used"
    /\ magic_links' = mark_used(magic_links, verifying[r].magic_link.id)
    /\ VerifyStep(r, [verifying[r] EXCEPT !.pc = "login_user", !.success = TRUE])
    /\ UNCHANGED <<nonauth, users, link_seq, email_configured, outbox, session, reply>>

\* login_user(user); return redirect(url_for('index'))
VerifyLogin(r) ==
    /\ verifying[r].pc = "login_user"
    /\ session' = [session EXCEPT ![r] = verifying[r].user.id]
    /\ VerifyStep(r, [verifying[r] EXCEPT !.pc = "done"])
    /\ UNCHANGED <<nonauth, users, magic_links, link_seq, email_configured, outbox, reply>>

\* DELETE /admin/users/<user_id>, by an administrator, of another user
DeleteUser ==
    /\ \E u \in {x \in users : ~x.is_admin} :
        \E r \in {DeleteUserRow(users, magic_links, u.id)} :
            /\ users' = r.users
            /\ magic_links' = r.magic_links
            /\ op' = "delete_user"
            /\ arg' = u.id
            /\ resp' = 200
    /\ UNCHANGED <<nonauth, link_seq, email_configured, outbox, verifying, session, reply>>

NextAuth ==
    \/ RequestMagicLink
    \/ \E r \in 1..MaxVerifies :
        VerifyGetByToken(r) \/ VerifyGetUser(r) \/ VerifyMarkUsed(r) \/ VerifyLogin(r)
    \/ DeleteUser
    \/ Tick

SpecAuth == InitAuth /\ [][NextAuth]_vars

(***************************************************************************)
(* Claims about magic links (checked under SpecAuth).                      *)
(***************************************************************************)
\* C19: a token logs in at most once: no two /auth/verify requests for the
\* same token both succeed, however their steps interleave.
C19_OneLoginPerToken ==
    \A r1, r2 \in DOMAIN verifying :
        ( /\ r1 # r2
          /\ verifying[r1].token = verifying[r2].token
          /\ verifying[r1].success )
        => ~verifying[r2].success

\* the users without the one whose email is submitted
Unregistered(us, submitted) == {u \in us : u.email # Lower(Strip(submitted, " "))}

\* C20: the status and the JSON POST /auth/magic-link answers are those it
\* answers when the submitted email is not registered, whatever the email
\* configuration and the outcome of the delivery.
C20_SameReplyUnregistered ==
    op = "request_magic_link" =>
        \A delivered \in BOOLEAN :
            reply = request_magic_link(Unregistered(users, arg), magic_links, link_seq,
                                       email_configured, outbox, arg, delivered, now).reply

(***************************************************************************)
(* Claims about read-only mode, backups and the project root (checked      *)
(* under SpecFiles).                                                       *)
(***************************************************************************)
\* the handlers that write, rename, delete, restore or extract files
FileWriters ==
    {"save_file", "create_file", "rename_file", "delete_file", "upload_zip", "restore_backup"}

\* C21: while READ_ONLY_MODE is on, no request of a writing handler succeeds
\* and the files stay as they were at the start.
C21_ReadOnlyRefuses ==
    (READ_ONLY_MODE /\ op \in FileWriters) => (resp # 200 /\ fs = FilesTree(root))

\* the backup files of file_path in f: BACKUP_DIR/<dir of file_path>/<name>.<timestamp>
BackupsOf(f, file_path) ==
    { p \in DOMAIN f :
        /\ f[p] # DIR
        /\ dirname(p) = dirname(normpath(pathjoin(BACKUP_DIR, file_path)))
        /\ StartsWith(basename(p), basename(file_path) \o <<DOT>>) }

\* the contents of the backup files of file_path in f
BackedUp(f, file_path) == { f[p] : p \in BackupsOf(f, file_path) }

\* the step is a successful save_file that took a backup
SavedWithBackup ==
    /\ op' = "save_file"
    /\ nreq' = nreq + 1
    /\ resp' = 200
    /\ \E p \in touched' : Beneath(p, BACKUP_DIR)

\* C22: a successful save_file with backup leaves the content the file held
\* before it in some backup of that path, and every content an earlier backup
\* of that path held is still held by some backup of that path.
C22_BackupsKept ==
    [][ SavedWithBackup =>
          (BackedUp(fs, arg') \cup {fs[res']}) \subseteq BackedUp(fs', arg') ]_vars

\* C28: delete_file refuses a non-empty path that safe_path resolves to the
\* project root, and the root directory stays.
C28_RootNotDeleted ==
    (op = "delete_file" /\ arg # <<>> /\ res = root) => (resp # 200 /\ root \in DOMAIN fs)

(***************************************************************************)
(* Automatic backups: initialize_automatic_backups, which every worker     *)
(* process runs when it imports app.py, the startup backup it starts and   *)
(* the daily scheduler (schedule_daily_backup).  The workers take their    *)
(* steps in any order.  fcntl.flock is held by an open file: two opens of  *)
(* _backup_lock_file exclude each other, in one process or in two.        *)
(***************************************************************************)
MaxWorkers == 2
MaxDays == 2

Workers == 1..MaxWorkers

\* a worker process that has not imported app.py yet
NotStarted == [init |-> "new", startup |-> "none", sched |-> "none", ran |-> 0]

\* the file descriptor a thread of a worker opened on _backup_lock_file
LockFd(w, thread) == [worker |-> w, thread |-> thread]

\* the master worker: startup_thread is started, then schedule_daily_backup();
\* backup_worker sleeps until the next 02:00
Master(w, d) == [init |-> "master", startup |-> "sleeping", sched |-> "waiting", ran |-> d]

\* initialize_automatic_backups(): os.open raises OSError while BACKUP_DIR
\* does not exist, and then the lock file does not exist either and cannot
\* be written, so that the worker goes on without a lock
initialize_automatic_backups(w, holder, dir_ready, d) ==
    IF ~dir_ready THEN [worker |-> Master(w, d), holder |-> holder]
    ELSE IF holder = None THEN [worker |-> Master(w, d), holder |-> LockFd(w, "startup")]
    ELSE [worker |-> [NotStarted EXCEPT !.init = "skipped"], holder |-> holder]

\* create_automatic_backup(): os.makedirs(backup_dir) and one zip file
create_automatic_backup(log, w, run) == log \cup {[worker |-> w, run |-> run]}

\* the backup of the startup, and the backup of the d-th 02:00
StartupRun == [scheduled |-> FALSE, day |-> 0]
ScheduledRun(d) == [scheduled |-> TRUE, day |-> d]

\* create_startup_backup(), ten seconds after the initialisation: the backup,
\* and finally LOCK_UN and close if the worker opened the lock file
create_startup_backup(w, holder) == IF holder = LockFd(w, "startup") THEN None ELSE holder

InitWorkers ==
    /\ root = CMS_BASE_DIR
    /\ fs = ProjectTree(root)
    /\ op = "init"
    /\ arg = <<>>
    /\ res = None
    /\ listing = {}
    /\ resp = 0
    /\ touched = {}
    /\ members = <<>>
    /\ now = 0
    /\ nreq = 0
    /\ READ_ONLY_MODE = FALSE
    /\ PreviewIdle
    /\ from_file = <<>>
    /\ AuthIdle
    /\ worker = [w \in Workers |-> NotStarted]
    /\ flock_holder = None
    /\ backup_dir_ready \in BOOLEAN
    /\ day = 0
    /\ created = {}
    /\ RetentionIdle
    /\ EmailIdle
    /\ SessionIdle

nonbackup ==
    <<root, fs, op, arg, res, listing, resp, touched, members, now, nreq, READ_ONLY_MODE, pvars,
      from_file, avars, rvars, evars, svars>>

\* a worker process imports app.py
Initialize ==
    \E w \in Workers :
        /\ worker[w].init = "new"
        /\ \E r \in {initialize_automatic_backups(w, flock_holder, backup_dir_ready, day)} :
              /\ worker' = [worker EXCEPT ![w] = r.worker]
              /\ flock_holder' = r.holder
        /\ UNCHANGED <<backup_dir_ready, day, created, nonbackup>>

\* the startup thread of a master worker wakes up
StartupBackup ==
    \E w \in Workers :
        /\ worker[w].startup = "sleeping"
        /\ created' = create_automatic_backup(created, w, StartupRun)
        /\ backup_dir_ready' = TRUE
        /\ flock_holder' = create_startup_backup(w, flock_holder)
        /\ worker' = [worker EXCEPT ![w].startup = "done"]
        /\ UNCHANGED <<day, nonbackup>>

\* 02:00 passes
NextDay ==
    /\ day < MaxDays
    /\ day' = day + 1
    /\ UNCHANGED <<worker, flock_holder, backup_dir_ready, created, nonbackup>>

\* backup_worker wakes up after 02:00 and tries the lock: LOCK_NB fails at
\* once while another open file holds it, and os.open raises OSError while
\* BACKUP_DIR does not exist, in which case the backup is created unlocked
SchedulerWake ==
    \E w \in Workers :
        /\ worker[w].sched = "waiting"
        /\ worker[w].ran < day
        /\ IF ~backup_dir_ready
             THEN /\ created' = create_automatic_backup(created, w, ScheduledRun(day))
                  /\ backup_dir_ready' = TRUE
                  /\ worker' = [worker EXCEPT ![w].ran = day]
                  /\ UNCHANGED flock_holder
             ELSE IF flock_holder = None
             THEN /\ flock_holder' = LockFd(w, "scheduler")
                  /\ worker' = [worker EXCEPT ![w].sched = "locked", ![w].ran = day]
                  /\ UNCHANGED <<created, backup_dir_ready>>
             ELSE /\ worker' = [worker EXCEPT ![w].ran = day]
                  /\ UNCHANGED <<flock_holder, created, backup_dir_ready>>
        /\ UNCHANGED <<day, nonbackup>>

\* backup_worker, holding the lock: the backup, LOCK_UN, close, and the sleep
\* until the next 02:00
SchedulerBackup ==
    \E w \in Workers :
        /\ worker[w].sched = "locked"
        /\ created' = create_automatic_backup(created, w, ScheduledRun(worker[w].ran))
        /\ flock_holder' = None
        /\ worker' = [worker EXCEPT ![w].sched = "waiting"]
        /\ UNCHANGED <<backup_dir_ready, day, nonbackup>>

NextWorkers == Initialize \/ StartupBackup \/ NextDay \/ SchedulerWake \/ SchedulerBackup

SpecWorkers == InitWorkers /\ [][NextWorkers]_vars

\* the workers that created the backup of a run
CreatorsOf(run) == { w \in Workers : [worker |-> w, run |-> run] \in created }

\* the workers that run the daily scheduler
Schedulers == { w \in Workers : worker[w].sched # "none" }

\* C23: at most one worker creates the startup backup, at most one runs the
\* daily scheduler, and at most one creates the backup of any 02:00 run
C23_OneWorkerBacksUp ==
    /\ Cardinality(CreatorsOf(StartupRun)) <= 1
    /\ Cardinality(Schedulers) <= 1
    /\ \A d \in 1..MaxDays : Cardinality(CreatorsOf(ScheduledRun(d))) <= 1

(***************************************************************************)
(* Backup retention: manage_backup_retention over the files of             *)
(* AUTO_BACKUP_DIR, whose names create_automatic_backup formats from       *)
(* datetime.now() and manage_backup_retention parses back.  The calendar   *)
(* is the proleptic Gregorian calendar of Python's datetime.               *)
(***************************************************************************)
IsLeap(y) == y % 4 = 0 /\ (y % 100 # 0 \/ y % 400 = 0)

DaysBeforeYear(y) == ((y - 1) * 365) + ((y - 1) \div 4) - ((y - 1) \div 100) + ((y - 1) \div 400)

MonthLengths == <<31, 28, 31, 30, 31, 30, 31, 31, 30, 31, 30, 31>>

DaysInMonth(y, m) == IF m = 2 /\ IsLeap(y) THEN 29 ELSE MonthLengths[m]

RECURSIVE DaysBeforeMonth(_, _)
DaysBeforeMonth(y, m) == IF m = 1 THEN 0 ELSE DaysBeforeMonth(y, m - 1) + DaysInMonth(y, m - 1)

\* date.toordinal()
toordinal(d) == DaysBeforeYear(d.year) + DaysBeforeMonth(d.year, d.month) + d.day

\* the ordinal of the Monday of ISO week 1 of a year
IsoWeek1Monday(y) ==
    LET firstday == DaysBeforeYear(y) + 1
        firstweekday == (firstday + 6) % 7
    IN IF firstweekday > 3 THEN firstday - firstweekday + 7 ELSE firstday - firstweekday

\* date.isocalendar(): the ISO year and the ISO week
isocalendar(d) ==
    LET ord == toordinal(d)
        week == (ord - IsoWeek1Monday(d.year)) \div 7
    IN IF ord < IsoWeek1Monday(d.year)
       THEN [year |-> d.year - 1, week |-> ((ord - IsoWeek1Monday(d.year - 1)) \div 7) + 1]
       ELSE IF week >= 52 /\ ord >= IsoWeek1Monday(d.year + 1)
            THEN [year |-> d.year + 1, week |-> 1]
            ELSE [year |-> d.year, week |-> week + 1]

DigitChars == {Digits[i] : i \in 1..10}
IsDigits(s) == \A i \in 1..Len(s) : s[i] \in DigitChars
DigitOf(c) == CHOOSE i \in 0..9 : Digits[i + 1] = c

RECURSIVE ToInt(_)
ToInt(s) == IF s = <<>> THEN 0 ELSE (10 * ToInt(SubSeq(s, 1, Len(s) - 1))) + DigitOf(s[Len(s)])

\* '%02d' and '%04d'
Pad2(n) == <<Digits[(n \div 10) + 1], Digits[(n % 10) + 1]>>
Pad4(n) == Pad2(n \div 100) \o Pad2(n % 100)

\* strftime('%Y%m%d')
strftime_Ymd(d) == Pad4(d.year) \o Pad2(d.month) \o Pad2(d.day)

\* the month and the day the directives %m and %d accept: one or two digits,
\* and for the day a space and a digit
MonthOf(s) ==
    IF Len(s) \in {1, 2} /\ IsDigits(s) /\ ToInt(s) \in 1..12 /\ s # <<"0">> THEN ToInt(s) ELSE 0
DayOf(s) ==
    IF Len(s) \in {1, 2} /\ IsDigits(s) /\ ToInt(s) \in 1..31 /\ s # <<"0">> THEN ToInt(s)
    ELSE IF Len(s) = 2 /\ s[1] = " " /\ IsDigits(Tail(s)) /\ s # <<" ", "0">> THEN ToInt(Tail(s))
    ELSE 0

\* the date of a year, a month and a day, None (ValueError) if there is none
DateOf(y, m, d) ==
    IF y >= 1 /\ m >= 1 /\ d >= 1 /\ d <= DaysInMonth(y, m) THEN [year |-> y, month |-> m, day |-> d]
    ELSE None

\* datetime.strptime(s, '%Y%m%d'): four digits of year, then the longest
\* month that leaves a day; None for ValueError
strptime_Ymd(s) ==
    IF Len(s) < 6 \/ Len(s) > 8 \/ ~IsDigits(SubSeq(s, 1, 4)) THEN None
    ELSE IF MonthOf(SubSeq(s, 5, 6)) # 0 /\ DayOf(Drop(s, 6)) # 0
         THEN DateOf(ToInt(SubSeq(s, 1, 4)), MonthOf(SubSeq(s, 5, 6)), DayOf(Drop(s, 6)))
    ELSE IF MonthOf(SubSeq(s, 5, 5)) # 0 /\ DayOf(Drop(s, 5)) # 0
         THEN DateOf(ToInt(SubSeq(s, 1, 4)), MonthOf(SubSeq(s, 5, 5)), DayOf(Drop(s, 5)))
    ELSE None

S_zip == <<DOT, "z", "i", "p">>
US == "_"

\* s.split('_')
RECURSIVE SplitUnderscore(_)
SplitUnderscoreAt(s, i) ==
    IF i = 0 THEN <<s>>
    ELSE <<SubSeq(s, 1, i - 1)>> \o SplitUnderscore(Drop(s, i))

SplitUnderscore(s) == SplitUnderscoreAt(s, Find(s, <<US>>))

\* get_website_name_for_backup(): os.path.basename(CMS_BASE_DIR)
website_name == basename(CMS_BASE_DIR)

\* backup_filename of create_automatic_backup at a date and a time of day
backup_filename(d, hms) == website_name \o <<US>> \o strftime_Ymd(d) \o <<US>> \o hms \o S_zip

\* the date manage_backup_retention reads in a file name, None if the file is
\* skipped
BackupDateOf(filename, bits) ==
    IF ~EndsWith(filename, S_zip) \/ Len(bits) < 3 THEN None
    ELSE strptime_Ymd(bits[Len(bits) - 1])

backup_date(filename) == BackupDateOf(filename, SplitUnderscore(Replace(filename, S_zip, <<>>)))

\* backups.sort(key=lambda x: x[1]) over the os.listdir order: i comes before j
SortedBefore(ords, i, j) == ords[i] < ords[j] \/ (ords[i] = ords[j] /\ i < j)

\* the entries manage_backup_retention keeps of those it read a date in:
\* dated holds their indices, dates their dates, ords the ordinals, weeks
\* isocalendar()[1], t the ordinal of datetime.now()
BackupsToKeep(dated, dates, ords, weeks, t) ==
    LET yearly_backups == { i \in dated : \A j \in dated :
            dates[j].year = dates[i].year => (j = i \/ SortedBefore(ords, i, j)) }
        monthly_backups == { i \in dated : t - ords[i] <= 365 /\ \A j \in dated :
            (t - ords[j] <= 365 /\ dates[j].year = dates[i].year /\ dates[j].month = dates[i].month)
                => (j = i \/ SortedBefore(ords, i, j)) }
        weekly_backups == { i \in dated : t - ords[i] <= 28 /\ \A j \in dated :
            (t - ords[j] <= 28 /\ dates[j].year = dates[i].year /\ weeks[j] = weeks[i])
                => (j = i \/ SortedBefore(ords, i, j)) }
        daily_backups == { i \in dated : t - ords[i] <= 7 }
    IN yearly_backups \cup monthly_backups \cup weekly_backups \cup daily_backups

\* what os.remove leaves of the listing
Remaining(listed, dated, keep) ==
    LET Stays(i) == i \notin dated \/ i \in keep
        RECURSIVE From(_)
        From(i) == IF i > Len(listed) THEN <<>>
                   ELSE IF Stays(i) THEN <<listed[i]>> \o From(i + 1) ELSE From(i + 1)
    IN From(1)

RetentionOver(listed, dates, dated, t) ==
    Remaining(listed, dated,
              BackupsToKeep(dated, dates, [i \in DOMAIN listed |-> IF i \in dated THEN toordinal(dates[i]) ELSE 0],
                            [i \in DOMAIN listed |-> IF i \in dated THEN isocalendar(dates[i]).week ELSE 0], t))

RetentionWith(listed, dates, t) ==
    RetentionOver(listed, dates, { i \in DOMAIN listed : dates[i] # None }, t)

\* manage_backup_retention() in single-tenant mode: listed is
\* os.listdir(AUTO_BACKUP_DIR), whose entries are regular files, and d the
\* date of datetime.now()
manage_backup_retention(listed, d) ==
    RetentionWith(listed, [i \in DOMAIN listed |-> backup_date(listed[i])], toordinal(d))

\* create_automatic_backup() in the listing: a new zip file, at the place the
\* directory gives it, or the file of that name written again
CreatedIn(listed, filename, place) ==
    IF \E i \in DOMAIN listed : listed[i] = filename THEN listed
    ELSE SubSeq(listed, 1, place - 1) \o <<filename>> \o Drop(listed, place - 1)

MaxBackups == 3

Ymd(y, m, d) == [year |-> y, month |-> m, day |-> d]

\* the days on which the workers run
Calendar ==
    <<Ymd(2024, 12, 23), Ymd(2024, 12, 30), Ymd(2025, 1, 1), Ymd(2025, 1, 9), Ymd(2025, 2, 10),
      Ymd(2026, 3, 1)>>

\* the times of day of a backup: the scheduler's and a startup's
Times == {<<"0", "2", "0", "0", "0", "0">>, <<"0", "9", "3", "0", "0", "0">>}

\* other files that may lie in AUTO_BACKUP_DIR
S_w_x_1_zip == <<"w", US, "x", US, "1">> \o S_zip
S_w_20241223_zip == <<"w", US, "2", "0", "2", "4", "1", "2", "2", "3">> \o S_zip
S_w_20241223_1_txt == <<"w", US, "2", "0", "2", "4", "1", "2", "2", "3", US, "1", DOT, "t", "x", "t">>
Strays == {S_w_x_1_zip, S_w_20241223_zip, S_w_20241223_1_txt}

InitRetention ==
    /\ root = CMS_BASE_DIR
    /\ fs = ProjectTree(root)
    /\ op = "init"
    /\ arg = <<>>
    /\ res = None
    /\ listing = {}
    /\ resp = 0
    /\ touched = {}
    /\ members = <<>>
    /\ now = 0
    /\ nreq = 0
    /\ READ_ONLY_MODE = FALSE
    /\ PreviewIdle
    /\ from_file = <<>>
    /\ AuthIdle
    /\ BackupIdle
    /\ EmailIdle
    /\ SessionIdle
    /\ auto_dir \in {<<>>} \cup {<<s>> : s \in Strays}
    /\ today = 1
    /\ swept = None

nonretention ==
    <<root, fs, op, arg, res, listing, resp, touched, members, now, nreq, READ_ONLY_MODE, pvars,
      from_file, avars, bvars, evars, svars>>

\* create_automatic_backup() and manage_backup_retention(), as the startup
\* thread and the scheduler call them
AutomaticBackup ==
    \E hms \in Times, place \in 1..(Len(auto_dir) + 1) :
        /\ Len(auto_dir) < MaxBackups
        /\ \E listed \in {CreatedIn(auto_dir, backup_filename(Calendar[today], hms), place)} :
              /\ swept' = listed
              /\ auto_dir' = manage_backup_retention(listed, Calendar[today])
        /\ UNCHANGED <<today, nonretention>>

\* days pass
Advance ==
    /\ \E later \in (today + 1)..Len(Calendar) : today' = later
    /\ swept' = None
    /\ UNCHANGED <<auto_dir, nonretention>>

NextRetention == AutomaticBackup \/ Advance

SpecRetention == InitRetention /\ [][NextRetention]_vars

Range(s) == { s[i] : i \in DOMAIN s }

\* the time of day in a backup's name
StampOf(bits) == IF IsDigits(bits[Len(bits)]) THEN ToInt(bits[Len(bits)]) ELSE 0
backup_time(filename) == StampOf(SplitUnderscore(Replace(filename, S_zip, <<>>)))

\* the backups with a date in their names, at a day
Parseable(listed) == { n \in Range(listed) : backup_date(n) # None }
AgeOf(n, d) == toordinal(d) - toordinal(backup_date(n))

\* n is the earliest of the backups of a set
Earliest(n, them) ==
    \A o \in them : \/ o = n
                    \/ toordinal(backup_date(n)) < toordinal(backup_date(o))
                    \/ /\ toordinal(backup_date(n)) = toordinal(backup_date(o))
                       /\ backup_time(n) < backup_time(o)

\* n is the only backup of its day among the backups of a set
AloneOnItsDay(n, them) == \A o \in them : backup_date(o) = backup_date(n) => o = n

SameIsoWeek(n, o) == isocalendar(backup_date(n)) = isocalendar(backup_date(o))
SameMonth(n, o) ==
    /\ backup_date(n).year = backup_date(o).year
    /\ backup_date(n).month = backup_date(o).month
SameYear(n, o) == backup_date(n).year = backup_date(o).year

\* the retention policy: daily for 7 days, weekly for 28, monthly for 365,
\* yearly for ever
PolicyKeeps(n, them, d) ==
    \/ AgeOf(n, d) <= 7
    \/ AgeOf(n, d) <= 28 /\ Earliest(n, { o \in them : AgeOf(o, d) <= 28 /\ SameIsoWeek(n, o) })
    \/ AgeOf(n, d) <= 365 /\ Earliest(n, { o \in them : AgeOf(o, d) <= 365 /\ SameMonth(n, o) })
    \/ Earliest(n, { o \in them : SameYear(n, o) })

\* C24: after manage_backup_retention the directory holds the backups the
\* policy keeps (those of the last 7 days, the earliest of each ISO week of
\* the last 28 days, of each month of the last 365 days and of each year)
\* and the files without a date in their names, and no other file
C24_RetentionPolicy ==
    swept # None =>
        Range(auto_dir) = { n \in Range(swept) :
            n \in Parseable(swept) => PolicyKeeps(n, Parseable(swept), Calendar[today]) }

(***************************************************************************)
(* The email service (email_service.py): the SMTP settings of the          *)
(* environment, and the operations that send mail: the magic-link request, *)
(* the administrator's send-link, create-user and email test routes.       *)
(***************************************************************************)
\* EmailConfig.get_config(): os.environ.get(name, '') of the SMTP settings
get_config(env) ==
    [host |-> env.SMTP_HOST, user |-> env.SMTP_USER, password |-> env.SMTP_PASSWORD,
     from_email |-> env.SMTP_FROM]

\* a check that leaves the sender's address out
is_configured_without_from(config) ==
    config.host # <<>> /\ config.user # <<>> /\ config.password # <<>>

\* EmailConfig.is_configured()
is_configured(config) ==
    config.host # <<>> /\ config.user # <<>> /\ config.password # <<>> /\ config.from_email # <<>>

\* what an operation of EmailService returns, and the SMTP sessions it opened
Mailed(success, error, sessions) == [success |-> success, error |-> error, sessions |-> sessions]

\* EmailService.send_email(); send_magic_link and send_welcome_email end in
\* it; delivered is the outcome of the SMTP session
send_email(config, delivered) ==
    IF ~is_configured(config)
    THEN Mailed(FALSE, "Email is not configured. Please set SMTP environment variables.", 0)
    ELSE IF delivered THEN Mailed(TRUE, "", 1)
    ELSE Mailed(FALSE, "SMTP authentication failed. Check your credentials.", 1)

\* EmailService.test_connection()
test_connection(config, delivered) ==
    IF ~is_configured(config)
    THEN Mailed(FALSE, "Email is not configured. Please set SMTP environment variables.", 0)
    ELSE IF delivered THEN Mailed(TRUE, "Connection successful", 1)
    ELSE Mailed(FALSE, "SMTP authentication failed", 1)

\* send_magic_link_to_user(user_id): POST /admin/users/<user_id>/send-link
SendLinkTo(user, magic_link, links, seq, mailed, configured) ==
    IF user = None THEN [reply |-> Json(404, [error |-> "User not found"]),
                         magic_links |-> links, link_seq |-> seq, sessions |-> 0]
    ELSE IF ~configured THEN [reply |-> Json(400, [error |-> "Email is not configured"]),
                              magic_links |-> links, link_seq |-> seq, sessions |-> 0]
    ELSE [reply |-> IF mailed.success THEN Json(200, [success |-> TRUE]) ELSE Json(500, [error |-> mailed.error]),
          magic_links |-> links \cup {magic_link}, link_seq |-> seq + 1, sessions |-> mailed.sessions]

send_magic_link_to_user(us, links, seq, config, user_id, delivered, t) ==
    SendLinkTo(get_by_id(us, user_id), MagicLinkCreate(seq, user_id, t), links, seq,
               send_email(config, delivered), is_configured(config))

\* create_user(): POST /admin/users {email, send_welcome_email}
CreateUserAs(us, email, existing, user, magic_link, links, seq, welcome, mailed, configured) ==
    IF email = <<>> THEN [reply |-> Json(400, [error |-> "Email is required"]), users |-> us,
                          magic_links |-> links, link_seq |-> seq, sessions |-> 0]
    ELSE IF existing # None
    THEN [reply |-> Json(400, [error |-> "User with this email already exists"]), users |-> us,
          magic_links |-> links, link_seq |-> seq, sessions |-> 0]
    ELSE IF welcome /\ configured
    THEN [reply |-> Json(200, [user |-> user.id]), users |-> us \cup {user},
          magic_links |-> links \cup {magic_link}, link_seq |-> seq + 1, sessions |-> mailed.sessions]
    ELSE [reply |-> Json(200, [user |-> user.id]), users |-> us \cup {user},
          magic_links |-> links, link_seq |-> seq, sessions |-> 0]

create_user(us, links, seq, config, submitted, user_id, welcome, delivered, t) ==
    CreateUserAs(us, Lower(Strip(submitted, " ")), get_by_email(us, Lower(Strip(submitted, " "))),
                 [id |-> user_id, email |-> Lower(Strip(submitted, " ")), is_admin |-> FALSE],
                 MagicLinkCreate(seq, user_id, t), links, seq, welcome,
                 send_email(config, delivered), is_configured(config))

MaxSessions == 2

\* the values of an SMTP setting: unset or empty, and set
Settings == {<<>>, <<"s">>}

Envs == [SMTP_HOST : Settings, SMTP_USER : Settings, SMTP_PASSWORD : Settings, SMTP_FROM : Settings]

InitEmail ==
    /\ root = CMS_BASE_DIR
    /\ fs = ProjectTree(root)
    /\ op = "start"
    /\ arg = None
    /\ res = None
    /\ listing = {}
    /\ resp = 0
    /\ touched = {}
    /\ members = <<>>
    /\ now = 0
    /\ nreq = 0
    /\ READ_ONLY_MODE = FALSE
    /\ PreviewIdle
    /\ from_file = <<>>
    /\ users = InitialUsers
    /\ magic_links = {}
    /\ link_seq = 0
    /\ smtp_env \in Envs
    /\ email_configured = is_configured(get_config(smtp_env))
    /\ smtp_sessions = 0
    /\ outbox = {}
    /\ verifying = <<>>
    /\ session = <<>>
    /\ reply = <<>>
    /\ BackupIdle
    /\ RetentionIdle
    /\ SessionIdle

\* what no operation of the email service changes
nonemail ==
    <<root, fs, res, listing, touched, members, now, nreq, READ_ONLY_MODE, pvars, from_file, bvars,
      rvars, svars, smtp_env, email_configured, verifying, session>>

\* an operation must leave room for the session and the link it may add
Room == link_seq < MaxLinks /\ smtp_sessions < MaxSessions

\* POST /auth/magic-link
EmailRequestMagicLink ==
    /\ Room
    /\ \E submitted \in SubmittedEmails, delivered \in BOOLEAN :
        \E r \in {request_magic_link(users, magic_links, link_seq, is_configured(get_config(smtp_env)),
                                     outbox, submitted, delivered, now)} :
            /\ op' = "request_magic_link"
            /\ arg' = submitted
            /\ resp' = r.reply.status
            /\ reply' = r.reply
            /\ magic_links' = r.magic_links
            /\ link_seq' = r.link_seq
            /\ outbox' = r.outbox
            /\ smtp_sessions' = smtp_sessions + (r.link_seq - link_seq)
    /\ UNCHANGED <<nonemail, users>>

\* POST /admin/users/<user_id>/send-link
SendMagicLinkToUser ==
    /\ Room
    /\ \E user_id \in 1..3, delivered \in BOOLEAN :
        \E r \in {send_magic_link_to_user(users, magic_links, link_seq, get_config(smtp_env),
                                          user_id, delivered, now)} :
            /\ op' = "send_magic_link_to_user"
            /\ arg' = user_id
            /\ resp' = r.reply.status
            /\ reply' = r.reply
            /\ magic_links' = r.magic_links
            /\ link_seq' = r.link_seq
            /\ smtp_sessions' = smtp_sessions + r.sessions
    /\ UNCHANGED <<nonemail, users, outbox>>

\* POST /admin/users
CreateUser ==
    /\ Room
    /\ \E submitted \in {<<>>, S_a_at_x, S_b_at_x}, welcome \in BOOLEAN, delivered \in BOOLEAN :
        \E r \in {create_user(users, magic_links, link_seq, get_config(smtp_env), submitted, 3,
                              welcome, delivered, now)} :
            /\ op' = "create_user"
            /\ arg' = submitted
            /\ resp' = r.reply.status
            /\ reply' = r.reply
            /\ users' = r.users
            /\ magic_links' = r.magic_links
            /\ link_seq' = r.link_seq
            /\ smtp_sessions' = smtp_sessions + r.sessions
    /\ UNCHANGED <<nonemail, outbox>>

\* POST /admin/email/test: email_service.test_connection()
TestEmail ==
    /\ Room
    /\ \E delivered \in BOOLEAN :
        \E r \in {test_connection(get_config(smtp_env), delivered)} :
            /\ op' = "test_connection"
            /\ arg' = None
            /\ resp' = 200
            /\ reply' = Json(200, [success |-> r.success, message |-> r.error])
            /\ smtp_sessions' = smtp_sessions + r.sessions
    /\ UNCHANGED <<nonemail, users, magic_links, link_seq, outbox>>

\* email_service.send_email(), called by itself
SendEmail ==
    /\ Room
    /\ \E delivered \in BOOLEAN :
        \E r \in {send_email(get_config(smtp_env), delivered)} :
            /\ op' = "send_email"
            /\ arg' = None
            /\ resp' = 0
            /\ reply' = Json(0, [success |-> r.success, message |-> r.error])
            /\ smtp_sessions' = smtp_sessions + r.sessions
    /\ UNCHANGED <<nonemail, users, magic_links, link_seq, outbox>>

NextEmail == EmailRequestMagicLink \/ SendMagicLinkToUser \/ CreateUser \/ TestEmail \/ SendEmail

SpecEmail == InitEmail /\ [][NextEmail]_vars

\* the four SMTP settings are all non-empty
AllFourSet ==
    /\ smtp_env.SMTP_HOST # <<>>
    /\ smtp_env.SMTP_USER # <<>>
    /\ smtp_env.SMTP_PASSWORD # <<>>
    /\ smtp_env.SMTP_FROM # <<>>

\* the submitted email is that of a user
Registered(submitted) == get_by_email(users, Lower(Strip(submitted, " "))) # None

\* C25: email is configured exactly when host, user, password and sender
\* address are all non-empty; while it is not, no SMTP session is opened,
\* send_email and test_connection fail, a magic-link request for a
\* registered email is answered with an error, and no magic-link row exists
C25_NotConfiguredNoMail ==
    /\ is_configured(get_config(smtp_env)) <=> AllFourSet
    /\ ~AllFourSet =>
        /\ smtp_sessions = 0
        /\ magic_links = {}
        /\ op \in {"send_email", "test_connection"} => ~reply.json.success
        /\ (op = "request_magic_link" /\ Registered(arg)) =>
                (reply.status = 500 /\ "error" \in DOMAIN reply.json)

\* a magic-link request for a registered email was refused with one setting
\* missing
C25_Witness ==
    /\ smtp_env.SMTP_HOST # <<>> /\ smtp_env.SMTP_USER # <<>> /\ smtp_env.SMTP_PASSWORD # <<>>
    /\ smtp_env.SMTP_FROM = <<>>
    /\ op = "request_magic_link"
    /\ Registered(arg)
    /\ reply.status = 500
    /\ magic_links = {}
    /\ smtp_sessions = 0

(***************************************************************************)
(* Sessions: the Flask session of one browser, the login routes that fill  *)
(* it, the decorator login_required of app.py, and the administrator's     *)
(* changes to users, projects and assignments made from another browser.   *)
(***************************************************************************)
PROJECTS_BASE_DIR == <<"/", "p">>

\* a session without data
Anonymous == [logged_in |-> FALSE, user_id |-> 0, current_project_id |-> 0,
              current_project_slug |-> None]

\* get_current_base_dir()
get_current_base_dir(multi, s) ==
    IF multi /\ s.current_project_slug # None
    THEN pathjoin(PROJECTS_BASE_DIR, s.current_project_slug)
    ELSE CMS_BASE_DIR

\* has_auth_configured()
has_auth_configured(pw) == pw # <<>>

\* login_required of app.py, for a JSON request: 0 when the handler runs,
\* else the status of the refusal
login_required(multi, pw, s) ==
    IF multi
    THEN IF s.user_id = 0 THEN 401
         ELSE IF s.current_project_id = 0 THEN 400
         ELSE 0
    ELSE IF has_auth_configured(pw) /\ ~s.logged_in THEN 302 ELSE 0

\* user.get_projects(): all projects for an administrator, else the assigned
\* ones; the names of the model's projects sort as their ids do
get_projects(ps, ups, user) ==
    IF user.is_admin THEN ps
    ELSE { p \in ps : [user_id |-> user.id, project_id |-> p.id] \in ups }

\* user.has_access_to_project(project_id)
has_access_to_project(ups, user, project_id) ==
    user.is_admin \/ [user_id |-> user.id, project_id |-> project_id] \in ups

\* projects[0] of a list in the order of the names
FirstProject(ps) == CHOOSE p \in ps : \A q \in ps : p.id <= q.id

\* login_user(user): the session keeps the project it holds
login_user(s, user, mine) ==
    IF mine # {} /\ s.current_project_id = 0
    THEN [s EXCEPT !.user_id = user.id, !.current_project_id = FirstProject(mine).id,
                   !.current_project_slug = FirstProject(mine).slug]
    ELSE [s EXCEPT !.user_id = user.id]

\* Project.get_by_id(project_id)
project_by_id(ps, project_id) == from_row({p \in ps : p.id = project_id})

\* switch_project(): POST /api/switch-project {project_id}, past login_required
SwitchTo(s, user, project, ups, project_id) ==
    IF user = None THEN [resp |-> 401, session |-> s]
    ELSE IF project_id = 0 THEN [resp |-> 400, session |-> s]
    ELSE IF project = None THEN [resp |-> 404, session |-> s]
    ELSE IF ~has_access_to_project(ups, user, project_id) THEN [resp |-> 403, session |-> s]
    ELSE [resp |-> 200, session |-> [s EXCEPT !.current_project_id = project.id,
                                              !.current_project_slug = project.slug]]

switch_project(us, ps, ups, s, project_id) ==
    SwitchTo(s, get_by_id(us, s.user_id), project_by_id(ps, project_id), ups, project_id)

\* get_file(): GET /api/file?path=, past login_required
GetFileAt(f, file_path, full_path) ==
    IF file_path = <<>> THEN [resp |-> 400, file |-> None]
    ELSE IF full_path = None \/ ~isfile(f, full_path) THEN [resp |-> 404, file |-> None]
    ELSE [resp |-> 200, file |-> full_path]

get_file(base_dir, f, file_path) == GetFileAt(f, file_path, safe_path(base_dir, file_path))

S_api == <<"a", "p", "i", "/">>
S_preview == <<"p", "r", "e", "v", "i", "e", "w">>

\* serve_asset_fallback(asset_path): GET /<path:asset_path>; the CSS branch
\* returns the text of the file as it is
ServeAssetAt(base_dir, f, asset_path, full_path) ==
    IF StartsWith(asset_path, S_api) \/ StartsWith(asset_path, S_preview)
    THEN [resp |-> 404, file |-> None]
    ELSE IF full_path = None \/ ~isfile(f, full_path) THEN [resp |-> 404, file |-> None]
    ELSE IF ~ContainedBare(abspath(full_path), abspath(base_dir)) THEN [resp |-> 403, file |-> None]
    ELSE [resp |-> 200, file |-> full_path]

serve_asset_fallback(base_dir, f, asset_path) ==
    ServeAssetAt(base_dir, f, asset_path, safe_path(base_dir, asset_path))

S_ab == <<"b">>

\* the users, the projects and the assignments at the start
TenantUsers == InitialUsers \cup {[id |-> 3, email |-> S_b_at_x, is_admin |-> FALSE]}
TenantProjects == {[id |-> 1, slug |-> <<"a">>], [id |-> 2, slug |-> S_ab]}
TenantAssignments == {[user_id |-> 1, project_id |-> 1], [user_id |-> 3, project_id |-> 2]}

\* the files of the site and of the two projects
TenantTree ==
    LET project_files == { pathjoin(pathjoin(PROJECTS_BASE_DIR, p.slug), S_index_html) : p \in TenantProjects }
        project_dirs == {PROJECTS_BASE_DIR} \cup { pathjoin(PROJECTS_BASE_DIR, p.slug) : p \in TenantProjects }
    IN [p \in DOMAIN ProjectTree(CMS_BASE_DIR) \cup project_files \cup project_dirs |->
            IF p \in project_dirs THEN DIR
            ELSE IF p \in project_files THEN "c0"
            ELSE ProjectTree(CMS_BASE_DIR)[p]]

\* the paths the client asks for
RequestedPaths == {<<>>, S_index_html, <<"a", "p", "i", "/", "x">>}

InitSession ==
    /\ root = CMS_BASE_DIR
    /\ fs = TenantTree
    /\ op = "start"
    /\ arg = None
    /\ res = None
    /\ listing = {}
    /\ resp = 0
    /\ touched = {}
    /\ members = <<>>
    /\ now = 0
    /\ nreq = 0
    /\ READ_ONLY_MODE = FALSE
    /\ PreviewIdle
    /\ from_file = <<>>
    /\ users = TenantUsers
    /\ magic_links = {}
    /\ link_seq = 0
    /\ email_configured = FALSE
    /\ outbox = {}
    /\ verifying = <<>>
    /\ session = <<>>
    /\ reply = <<>>
    /\ BackupIdle
    /\ RetentionIdle
    /\ EmailIdle
    /\ MULTI_TENANT \in BOOLEAN
    /\ CMS_PASSWORD \in {<<>>, <<"p">>}
    /\ cookie = Anonymous
    /\ projects = TenantProjects
    /\ user_projects = TenantAssignments
    /\ served = None

\* what no request of this part changes
nonsession ==
    <<fs, res, listing, touched, members, now, nreq, READ_ONLY_MODE, pvars, from_file,
      magic_links, link_seq, email_configured, outbox, verifying, session, reply, bvars, rvars,
      evars, MULTI_TENANT, CMS_PASSWORD>>

\* the request name(path) was answered with status, carrying the file served
Answered(name, path, status, file) ==
    /\ op' = name
    /\ arg' = path
    /\ resp' = status
    /\ served' = file

\* POST /login: with MULTI_TENANT the email and the password of a user,
\* refused while the session holds a user; else the password of the site
Login ==
    /\ \/ /\ MULTI_TENANT
          /\ \E user \in users, correct \in BOOLEAN :
                /\ cookie' = IF cookie.user_id # 0 \/ ~correct THEN cookie
                             ELSE login_user(cookie, user, get_projects(projects, user_projects, user))
                /\ Answered("login", user.id, IF cookie.user_id = 0 /\ ~correct THEN 200 ELSE 302, None)
       \/ /\ ~MULTI_TENANT
          /\ \E correct \in BOOLEAN :
                /\ cookie' = IF ~has_auth_configured(CMS_PASSWORD) \/ correct
                             THEN [cookie EXCEPT !.logged_in = TRUE] ELSE cookie
                /\ Answered("login", None,
                            IF ~has_auth_configured(CMS_PASSWORD) \/ correct THEN 302 ELSE 200, None)
    /\ UNCHANGED <<root, users, projects, user_projects, nonsession>>

\* GET /auth/verify/<token> with the valid magic link of a user
VerifyToken ==
    /\ MULTI_TENANT
    /\ \E user \in users :
        /\ cookie' = login_user(cookie, user, get_projects(projects, user_projects, user))
        /\ Answered("verify_token", user.id, 302, None)
    /\ UNCHANGED <<root, users, projects, user_projects, nonsession>>

\* GET /logout: session.clear(), or the pop of logged_in
Logout ==
    /\ cookie' = Anonymous
    /\ Answered("logout", None, 302, None)
    /\ UNCHANGED <<root, users, projects, user_projects, nonsession>>

\* POST /api/switch-project
SwitchProject ==
    /\ MULTI_TENANT
    /\ \E project_id \in 0..3 :
        \E r \in {IF login_required(MULTI_TENANT, CMS_PASSWORD, cookie) # 0
                  THEN [resp |-> login_required(MULTI_TENANT, CMS_PASSWORD, cookie), session |-> cookie]
                  ELSE switch_project(users, projects, user_projects, cookie, project_id)} :
            /\ cookie' = r.session
            /\ Answered("switch_project", project_id, r.resp, None)
    /\ UNCHANGED <<root, users, projects, user_projects, nonsession>>

\* DELETE /admin/assignments, by an administrator in another browser
UnassignUserFromProject ==
    /\ MULTI_TENANT
    /\ \E a \in user_projects :
        /\ user_projects' = user_projects \ {a}
        /\ Answered("unassign_user_from_project", a.user_id, 200, None)
    /\ UNCHANGED <<root, cookie, users, projects, nonsession>>

\* DELETE /admin/users/<user_id>, by an administrator in another browser;
\* the assignments of the user go with the row (ON DELETE CASCADE)
TenantDeleteUser ==
    /\ MULTI_TENANT
    /\ \E u \in {x \in users : ~x.is_admin} :
        /\ users' = DeleteUserRow(users, magic_links, u.id).users
        /\ user_projects' = {a \in user_projects : a.user_id # u.id}
        /\ Answered("delete_user", u.id, 200, None)
    /\ UNCHANGED <<root, cookie, projects, nonsession>>

\* DELETE /admin/projects/<project_id>, by an administrator in another browser
DeleteProject ==
    /\ MULTI_TENANT
    /\ \E p \in projects :
        /\ projects' = projects \ {p}
        /\ user_projects' = {a \in user_projects : a.project_id # p.id}
        /\ Answered("delete_project", p.id, 200, None)
    /\ UNCHANGED <<root, cookie, users, nonsession>>

\* GET /api/file, behind login_required
GetFile ==
    /\ \E file_path \in RequestedPaths, gate \in {login_required(MULTI_TENANT, CMS_PASSWORD, cookie)} :
        \E r \in {IF gate # 0 THEN [resp |-> gate, file |-> None]
                  ELSE get_file(get_current_base_dir(MULTI_TENANT, cookie), fs, file_path)} :
            /\ Answered(IF gate # 0 THEN "login_required" ELSE "get_file", file_path, r.resp, r.file)
            /\ root' = IF gate # 0 THEN root ELSE get_current_base_dir(MULTI_TENANT, cookie)
    /\ UNCHANGED <<cookie, users, projects, user_projects, nonsession>>

\* GET /<path:asset_path>
ServeAssetFallback ==
    /\ \E asset_path \in RequestedPaths \ {<<>>} :
        \E r \in {serve_asset_fallback(get_current_base_dir(MULTI_TENANT, cookie), fs, asset_path)} :
            /\ Answered("serve_asset_fallback", asset_path, r.resp, r.file)
            /\ root' = get_current_base_dir(MULTI_TENANT, cookie)
    /\ UNCHANGED <<cookie, users, projects, user_projects, nonsession>>

\* GET /preview-assets/<path:asset_path>
SessionPreviewAssets ==
    /\ \E asset_path \in RequestedPaths :
        \E r \in {preview_assets(get_current_base_dir(MULTI_TENANT, cookie), fs, asset_path, <<>>)} :
            /\ Answered("preview_assets", asset_path, r.resp, r.sent.file)
            /\ root' = get_current_base_dir(MULTI_TENANT, cookie)
    /\ UNCHANGED <<cookie, users, projects, user_projects, nonsession>>

NextSession ==
    \/ Login \/ VerifyToken \/ Logout \/ SwitchProject
    \/ UnassignUserFromProject \/ TenantDeleteUser \/ DeleteProject
    \/ GetFile \/ ServeAssetFallback \/ SessionPreviewAssets

SpecSession == InitSession /\ [][NextSession]_vars

\* C26: with MULTI_TENANT, when a file operation behind login_required runs,
\* the user of the session exists and is an administrator or assigned to
\* the current project of the session
C26_SessionUserHasAccess ==
    (MULTI_TENANT /\ op = "get_file") =>
        /\ get_by_id(users, cookie.user_id) # None
        /\ has_access_to_project(user_projects, get_by_id(users, cookie.user_id),
                                 cookie.current_project_id)

\* the session is that of a logged-in client
Authenticated == IF MULTI_TENANT THEN cookie.user_id # 0 ELSE cookie.logged_in

\* C27: when authentication is configured, a response carries the content of
\* a file under the project root only to a client with an authenticated
\* session
C27_NoContentWithoutSession ==
    ((MULTI_TENANT \/ has_auth_configured(CMS_PASSWORD)) /\ served # None) => Authenticated
====
